---- MODULE Spec2Model ----
(***************************************************************************)
(* A model of the extraction core of the BOQ generator: the field          *)
(* extractors and record builders of lib/material-parser.ts, the           *)
(* deduplicator of lib/deduplicate-materials.ts, the validation functions  *)
(* of lib/db.ts and the request handler of app/api/extract/route.ts.       *)
(*                                                                         *)
(* Texts are TLA+ strings, read character by character with Len, SubSeq    *)
(* and \o.  An optional field of the source (x?: T, or a value that may be *)
(* undefined) is the empty tuple when absent and the one-element tuple     *)
(* <<v>> when present.  Numbers are exact rationals [n, d] in lowest       *)
(* terms; the rounding of IEEE doubles is not modelled.                    *)
(***************************************************************************)
EXTENDS Integers, Sequences, FiniteSets, TLC

VARIABLES
    pc,               \* where the run stands: before or after the call(s)
    fn,               \* the exported function the run calls
    argText,          \* its string argument
    argData,          \* the additionalData argument of parseMaterialData
    argRow,           \* the TableRow argument of parseTableRow
    result,           \* what the call returned
    materials,        \* the argument of deduplicateMaterials
    deduped,          \* deduplicateMaterials(materials)
    rededuped,        \* deduplicateMaterials(deduped)
    heap,             \* the objects the deduplicator reads and writes
    lastIndexes,      \* the lastIndex of each pattern of the pattern library
    calls,            \* how many calls of the parser module have returned
    drawings,         \* the drawing table of the database, by id
    extractedData,    \* the extractedData table of the database
    blobs,            \* the blob store: what each URL holds
    files,            \* the file system: what each path holds
    requests          \* the POST /api/extract requests and where each stands

callVars == <<fn, argText, argData, argRow, result, lastIndexes, calls>>
dedupVars == <<materials, deduped, rededuped, heap>>
routeVars == <<drawings, extractedData, blobs, files, requests>>
vars == <<pc, callVars, dedupVars, routeVars>>

(***************************************************************************)
(* Optional values.                                                        *)
(***************************************************************************)
None == <<>>
Some(v) == <<v>>
IsSome(o) == o # <<>>
Get(o) == o[1]

(***************************************************************************)
(* Characters and strings.                                                 *)
(***************************************************************************)
Ch(s, i) == SubSeq(s, i, i)

UPPER == "ABCDEFGHIJKLMNOPQRSTUVWXYZ"
LOWER == "abcdefghijklmnopqrstuvwxyz"
DIGITS == "0123456789"

\* the white space characters of String.prototype.trim and of \s that the
\* inputs of this model use
IsSpace(c) == c \in {" ", "\t", "\n", "\r"}

DigitValues == [c \in {Ch(DIGITS, i) : i \in 1..10} |->
                   (CHOOSE i \in 1..10 : Ch(DIGITS, i) = c) - 1]

IsDigit(c) == c \in DOMAIN DigitValues

DigitVal(c) == DigitValues[c]

LowerCased == [c \in {Ch(UPPER, i) : i \in 1..26} |->
                  Ch(LOWER, CHOOSE i \in 1..26 : Ch(UPPER, i) = c)]

LowerChar(c) == IF c \in DOMAIN LowerCased THEN LowerCased[c] ELSE c

RECURSIVE toLowerCase(_)
toLowerCase(s) ==
    IF s = "" THEN "" ELSE LowerChar(Head(s)) \o toLowerCase(Tail(s))

RECURSIVE trimStart(_)
trimStart(s) ==
    IF s # "" /\ IsSpace(Head(s)) THEN trimStart(Tail(s)) ELSE s

RECURSIVE trimEnd(_)
trimEnd(s) ==
    IF s # "" /\ IsSpace(Ch(s, Len(s)))
    THEN trimEnd(SubSeq(s, 1, Len(s) - 1))
    ELSE s

trim(s) == trimEnd(trimStart(s))

\* Array.prototype.join
RECURSIVE join(_, _)
join(strs, sep) ==
    IF strs = <<>> THEN ""
    ELSE IF Len(strs) = 1 THEN strs[1]
    ELSE strs[1] \o sep \o join(Tail(strs), sep)

\* Array.prototype.push of x unless the array holds it already
pushNew(xs, x) == IF \E i \in 1..Len(xs) : xs[i] = x THEN xs ELSE Append(xs, x)

\* [...new Set(xs)]: the distinct elements in order of first appearance
RECURSIVE uniq(_)
uniq(xs) ==
    IF xs = <<>> THEN <<>>
    ELSE pushNew(uniq(SubSeq(xs, 1, Len(xs) - 1)), xs[Len(xs)])

(***************************************************************************)
(* Numbers: exact rationals in lowest terms.                               *)
(***************************************************************************)
RECURSIVE GCD(_, _)
GCD(a, b) == IF b = 0 THEN a ELSE GCD(b, a % b)

Rat(n, d) == LET g == GCD(n, d) IN [n |-> n \div g, d |-> d \div g]
Int2Rat(n) == [n |-> n, d |-> 1]
RatAdd(p, q) == Rat(p.n * q.d + q.n * p.d, p.d * q.d)
RatMul(p, q) == Rat(p.n * q.n, p.d * q.d)
RatDiv(p, k) == Rat(p.n, p.d * k)
RatZero == Int2Rat(0)

RECURSIVE NatToString(_)
NatToString(n) ==
    IF n < 10 THEN Ch(DIGITS, n + 1)
    ELSE NatToString(n \div 10) \o Ch(DIGITS, (n % 10) + 1)

\* the digits of the fraction r/d, 0 <= r < d (finite for the
\* denominators 2^a 5^b that decimal inputs and unit factors produce)
RECURSIVE FractionDigits(_, _, _)
FractionDigits(r, d, budget) ==
    IF r = 0 \/ budget = 0 THEN ""
    ELSE Ch(DIGITS, ((r * 10) \div d) + 1)
         \o FractionDigits((r * 10) % d, d, budget - 1)

\* String(number), for non-negative numbers in plain decimal notation
NumberToString(q) ==
    IF q.d = 1 THEN NatToString(q.n)
    ELSE NatToString(q.n \div q.d) \o "." \o FractionDigits(q.n % q.d, q.d, 9)

(***************************************************************************)
(* Regular expressions.  A pattern is a tree of the nodes below, written   *)
(* after the regex literal of the source.  Match gives every way a node    *)
(* can match at position i, as the sequence of [pos, caps] results in the  *)
(* order in which a backtracking matcher tries them (greedy quantifiers,   *)
(* alternatives left to right): the first result is the match that         *)
(* RegExp.prototype.exec reports at i.  A capture is the pair of the       *)
(* positions where its group began and ended.  Under the i flag the        *)
(* pattern, written in lower case, is matched against the lower-cased      *)
(* text, and the matched texts are cut from the text as given.             *)
(***************************************************************************)
Lit(str) == [t |-> "lit", s |-> str]           \* literal characters
AnyOf(cs) == [t |-> "set", cs |-> cs]          \* [...] and single-character alternatives
Digit == [t |-> "digit"]                       \* \d
Space == [t |-> "space"]                       \* \s
Bol == [t |-> "bol"]                           \* ^ under the m flag
Eol == [t |-> "eol"]                           \* $ under the m flag
Bos == [t |-> "bos"]                           \* ^ without the m flag
Eos == [t |-> "eos"]                           \* $ without the m flag
WordB == [t |-> "wordb"]                       \* \b
Concat(rs) == [t |-> "seq", rs |-> rs]
Alt(rs) == [t |-> "alt", rs |-> rs]
Rep(r, lo, hi) == [t |-> "rep", r |-> r, lo |-> lo, hi |-> hi]   \* r{lo,hi}, greedy
Unbounded == 0 - 1
Star(r) == Rep(r, 0, Unbounded)
Plus(r) == Rep(r, 1, Unbounded)
Opt(r) == Rep(r, 0, 1)
Cap(k, r) == [t |-> "cap", k |-> k, r |-> r]   \* the k-th capturing group

\* a pattern: its tree, the number of its capturing groups, its i flag
Pattern(re, n, i) == [re |-> re, n |-> n, i |-> i]

WordChars ==
    {"_"} \cup {Ch(DIGITS, i) : i \in 1..10}
          \cup {Ch(UPPER, i) : i \in 1..26} \cup {Ch(LOWER, i) : i \in 1..26}

IsWordChar(c) == c \in WordChars

IsLineTerminator(c) == c \in {"\n", "\r"}

AtWordBoundary(s, i) ==
    (i > 1 /\ IsWordChar(Ch(s, i - 1))) # (i <= Len(s) /\ IsWordChar(Ch(s, i)))

Result(pos, caps) == [pos |-> pos, caps |-> caps]

\* the results of a group: those of its body, with the group's span recorded
Captured(k, i, inner) ==
    [n \in 1..Len(inner) |->
        Result(inner[n].pos, [inner[n].caps EXCEPT ![k] = Some(<<i, inner[n].pos>>)])]

RECURSIVE Match(_, _, _, _)
RECURSIVE MatchSeqFrom(_, _, _)
RECURSIVE MatchRepFrom(_, _, _, _, _, _)

\* a sequence: each result of the first node, continued with the rest
MatchSeqFrom(results, rs, s) ==
    IF results = <<>> THEN <<>>
    ELSE Match(Concat(rs), s, Head(results).pos, Head(results).caps)
         \o MatchSeqFrom(Tail(results), rs, s)

\* a repetition: each result of one more iteration that consumed something,
\* continued with the remaining iterations
MatchRepFrom(results, r, lo, hi, s, i) ==
    IF results = <<>> THEN <<>>
    ELSE (IF Head(results).pos > i
          THEN Match(Rep(r, lo - 1, IF hi = Unbounded THEN hi ELSE hi - 1),
                     s, Head(results).pos, Head(results).caps)
          ELSE <<>>)
         \o MatchRepFrom(Tail(results), r, lo, hi, s, i)

Match(r, s, i, caps) ==
    CASE r.t = "lit" ->
           IF i + Len(r.s) - 1 <= Len(s) /\ SubSeq(s, i, i + Len(r.s) - 1) = r.s
           THEN << Result(i + Len(r.s), caps) >> ELSE <<>>
      [] r.t = "set" ->
           IF i <= Len(s) /\ Ch(s, i) \in r.cs THEN << Result(i + 1, caps) >> ELSE <<>>
      [] r.t = "digit" ->
           IF i <= Len(s) /\ IsDigit(Ch(s, i)) THEN << Result(i + 1, caps) >> ELSE <<>>
      [] r.t = "space" ->
           IF i <= Len(s) /\ IsSpace(Ch(s, i)) THEN << Result(i + 1, caps) >> ELSE <<>>
      [] r.t = "bol" ->
           IF i = 1 \/ IsLineTerminator(Ch(s, i - 1)) THEN << Result(i, caps) >> ELSE <<>>
      [] r.t = "eol" ->
           IF i = Len(s) + 1 \/ IsLineTerminator(Ch(s, i))
           THEN << Result(i, caps) >> ELSE <<>>
      [] r.t = "bos" -> IF i = 1 THEN << Result(i, caps) >> ELSE <<>>
      [] r.t = "eos" -> IF i = Len(s) + 1 THEN << Result(i, caps) >> ELSE <<>>
      [] r.t = "wordb" -> IF AtWordBoundary(s, i) THEN << Result(i, caps) >> ELSE <<>>
      [] r.t = "seq" ->
           IF r.rs = <<>> THEN << Result(i, caps) >>
           ELSE MatchSeqFrom(Match(Head(r.rs), s, i, caps), Tail(r.rs), s)
      [] r.t = "alt" ->
           IF r.rs = <<>> THEN <<>>
           ELSE Match(Head(r.rs), s, i, caps) \o Match(Alt(Tail(r.rs)), s, i, caps)
      [] r.t = "rep" ->
           \* greedy: one more iteration is tried before stopping
           (IF r.hi = 0 THEN <<>>
            ELSE MatchRepFrom(Match(r.r, s, i, caps), r.r, r.lo, r.hi, s, i))
           \o (IF r.lo <= 0 THEN << Result(i, caps) >> ELSE <<>>)
      [] r.t = "cap" -> Captured(r.k, i, Match(r.r, s, i, caps))

NoCaps(n) == [k \in 1..n |-> None]

\* the match that starts at start, from the results of Match there.  A
\* match is [start, end, caps], end the position after its last character.
MatchAt(start, results) ==
    [start |-> start, end |-> results[1].pos, caps |-> results[1].caps]

\* RegExp.prototype.exec from lastIndex: the first match at the leftmost
\* position where the pattern matches, or absent
RECURSIVE execFrom(_, _, _, _)

execAt(re, n, s, start, results) ==
    IF results # <<>> THEN Some(MatchAt(start, results))
    ELSE execFrom(re, n, s, start + 1)

execFrom(re, n, s, lastIndex) ==
    IF lastIndex > Len(s) + 1 THEN None
    ELSE execAt(re, n, s, lastIndex, Match(re, s, lastIndex, NoCaps(n)))

\* the text a pattern is matched against
subject(p, s) == IF p.i THEN toLowerCase(s) ELSE s

exec(p, s) == execFrom(p.re, p.n, subject(p, s), 1)

\* match[0]
matched(s, m) == SubSeq(s, m.start, m.end - 1)

\* match[k], absent when the group took no part in the match
captured(s, m, k) ==
    IF m.caps[k] = None THEN None
    ELSE Some(SubSeq(s, Get(m.caps[k])[1], Get(m.caps[k])[2] - 1))

\* where the search for the next match of a g pattern resumes: after an
\* empty match, one character further
nextIndex(m) == IF m.end = m.start THEN m.end + 1 ELSE m.end

RECURSIVE matchAllFrom(_, _, _, _)

matchAllNext(re, n, s, m) ==
    IF m = None THEN <<>>
    ELSE <<Get(m)>> \o matchAllFrom(re, n, s, nextIndex(Get(m)))

matchAllFrom(re, n, s, lastIndex) ==
    matchAllNext(re, n, s, execFrom(re, n, s, lastIndex))

\* String.prototype.matchAll with a g pattern: the successive matches
matchAll(p, s) == matchAllFrom(p.re, p.n, subject(p, s), 1)

\* RegExp.prototype.test
test(p, s) == exec(p, s) # None

\* String.prototype.split with a pattern that matches no empty string
RECURSIVE splitFrom(_, _, _)

splitNext(p, s, from, m) ==
    IF m = None THEN << SubSeq(s, from, Len(s)) >>
    ELSE << SubSeq(s, from, Get(m).start - 1) >> \o splitFrom(p, s, Get(m).end)

splitFrom(p, s, from) == splitNext(p, s, from, execFrom(p.re, p.n, s, from))

split(p, s) == splitFrom(p, s, 1)

\* String.prototype.includes
includes(s, sub) ==
    \E i \in 1..(Len(s) - Len(sub) + 1) : SubSeq(s, i, i + Len(sub) - 1) = sub

(***************************************************************************)
(* ExtractedMaterial (types/index.ts).  rawData is an optional mapping     *)
(* from keys to values; sourceTrace is one of its keys.                    *)
(***************************************************************************)
Material(type, dims, qty, ann, conf, raw) ==
    [materialType |-> type, dimensions |-> dims, quantity |-> qty,
     annotations |-> ann, confidence |-> conf, rawData |-> raw]

\* { ...m, k: v } on a mapping
Spread(m, k, v) == [x \in (DOMAIN m) \cup {k} |-> IF x = k THEN v ELSE m[x]]

\* m.rawData?.sourceTrace
sourceTraceOf(m) ==
    IF IsSome(m.rawData) /\ "sourceTrace" \in DOMAIN Get(m.rawData)
    THEN Some(Get(m.rawData)["sourceTrace"])
    ELSE None

(***************************************************************************)
(* deduplicate-materials.ts                                                *)
(***************************************************************************)
\* CONFIDENCE_ORDER[c ?? ''] ?? 0
CONFIDENCE_ORDER(c) ==
    IF c = Some("confirmed") THEN 3
    ELSE IF c = Some("estimated") THEN 2
    ELSE IF c = Some("missing") THEN 1
    ELSE 0

normalizeKey(m) ==
    LET type == trim(toLowerCase(IF IsSome(m.materialType) THEN Get(m.materialType) ELSE ""))
        dims == trim(IF IsSome(m.dimensions) THEN Get(m.dimensions) ELSE "")
        qty == IF IsSome(m.quantity) THEN NumberToString(Get(m.quantity)) ELSE ""
    IN  type \o "|" \o dims \o "|" \o qty

\* a grouping that compares a record's key with the previous record's only
RECURSIVE byKeyKeysAdjacent(_)
byKeyKeysAdjacent(ms) ==
    IF ms = <<>> THEN <<>>
    ELSE LET init == byKeyKeysAdjacent(SubSeq(ms, 1, Len(ms) - 1))
             key == normalizeKey(ms[Len(ms)])
         IN  IF Len(ms) > 1 /\ normalizeKey(ms[Len(ms) - 1]) = key
             THEN init
             ELSE Append(init, key)

\* the keys in the order in which each occurs last
RECURSIVE byKeyKeysLastSeen(_)
byKeyKeysLastSeen(ms) ==
    IF ms = <<>> THEN <<>>
    ELSE LET rest == byKeyKeysLastSeen(Tail(ms))
             key == normalizeKey(Head(ms))
         IN  IF \E i \in 1..Len(rest) : rest[i] = key
             THEN rest
             ELSE <<key>> \o rest

\* the keys of the Map byKey, in insertion order
RECURSIVE byKeyKeys(_)
byKeyKeys(ms) ==
    IF ms = <<>> THEN <<>>
    ELSE LET init == byKeyKeys(SubSeq(ms, 1, Len(ms) - 1))
             key == normalizeKey(ms[Len(ms)])
         IN  IF \E i \in 1..Len(init) : init[i] = key
             THEN init
             ELSE Append(init, key)

\* byKey.get(key): the records pushed under key, in input order
RECURSIVE byKeyGet(_, _)
byKeyGet(ms, key) ==
    IF ms = <<>> THEN <<>>
    ELSE LET rest == byKeyGet(Tail(ms), key)
         IN  IF normalizeKey(Head(ms)) = key THEN <<Head(ms)>> \o rest ELSE rest

\* a reduce that keeps the later of two records of equal confidence
RECURSIVE reduceBestLater(_, _)
reduceBestLater(a, rest) ==
    IF rest = <<>> THEN a
    ELSE reduceBestLater(IF CONFIDENCE_ORDER(a.confidence) > CONFIDENCE_ORDER(Head(rest).confidence)
                         THEN a ELSE Head(rest),
                         Tail(rest))

\* group.reduce((a, b) => order(a) >= order(b) ? a : b)
RECURSIVE reduceBest(_, _)
reduceBest(a, rest) ==
    IF rest = <<>> THEN a
    ELSE reduceBest(IF CONFIDENCE_ORDER(a.confidence) >= CONFIDENCE_ORDER(Head(rest).confidence)
                    THEN a ELSE Head(rest),
                    Tail(rest))

best(group) == reduceBest(Head(group), Tail(group))

\* group.map((g) => g.annotations).filter(Boolean): undefined and '' are dropped
RECURSIVE truthyStrings(_)
truthyStrings(opts) ==
    IF opts = <<>> THEN <<>>
    ELSE LET rest == truthyStrings(Tail(opts))
         IN  IF IsSome(Head(opts)) /\ Get(Head(opts)) # ""
             THEN <<Get(Head(opts))>> \o rest
             ELSE rest

\* group.map((g) => g.rawData?.sourceTrace).filter(Boolean): a trace object
\* is truthy, undefined is dropped
RECURSIVE truthyObjects(_)
truthyObjects(opts) ==
    IF opts = <<>> THEN <<>>
    ELSE LET rest == truthyObjects(Tail(opts))
         IN  IF IsSome(Head(opts)) THEN <<Get(Head(opts))>> \o rest ELSE rest

\* the annotations joined without removing the repeated ones
mergedAnnotationsRepeated(group) ==
    join(truthyStrings([i \in 1..Len(group) |-> group[i].annotations]), "; ")

mergedAnnotations(group) ==
    join(uniq(truthyStrings([i \in 1..Len(group) |-> group[i].annotations])), "; ")

\* the traces of the group from its last member to its first
groupTracesReversed(group) ==
    truthyObjects([i \in 1..Len(group) |-> sourceTraceOf(group[Len(group) + 1 - i])])

groupTraces(group) ==
    truthyObjects([i \in 1..Len(group) |-> sourceTraceOf(group[i])])

mergeGroup(group) ==
    LET b == best(group)
        annotations == mergedAnnotations(group)
        merged == [b EXCEPT !.annotations =
                       IF annotations # "" THEN Some(annotations) ELSE b.annotations]
        traces == groupTraces(group)
        raw == IF IsSome(merged.rawData) THEN Get(merged.rawData) ELSE <<>>
    IN  IF Len(traces) > 0
        THEN [merged EXCEPT !.rawData =
                 Some(Spread(Spread(raw, "sourceTrace", traces[1]),
                             "sourceTraceCount", Len(traces)))]
        ELSE merged

deduplicateMaterials(ms) ==
    LET keys == byKeyKeys(ms)
    IN  [i \in 1..Len(keys) |-> mergeGroup(byKeyGet(ms, keys[i]))]

(***************************************************************************)
(* material-parser.ts: the pattern library                                 *)
(***************************************************************************)
\* the categories in declaration order, each with its keywords
MATERIAL_KEYWORDS ==
    << <<"acp", <<"acp", "aluminum composite", "alucobond", "acm", "aluminium composite",
                  "composite panel", "acp panel", "metal composite", "acp cladding",
                  "composite cladding">> >>,
       <<"aluminum", <<"aluminum panel", "aluminum cladding", "aluminum sheet",
                       "aluminium panel", "aluminium cladding", "aluminum", "aluminium",
                       "aluminum mullion", "aluminum framing", "al frame">> >>,
       <<"steel", <<"steel", "stainless steel", "carbon steel", "ss ", " ss">> >>,
       <<"composite", <<"composite">> >>,
       <<"glass", <<"double glaz", "triple glaz", "glazing unit", "glazed unit", "glass",
                    "glazing", "glazed", "insulated glass", "window", "pane",
                    "vision panel">> >>,
       <<"concrete", <<"concrete", "reinforced concrete", " rc ">> >>,
       <<"stone", <<"stone", "marble", "granite", "limestone", "natural stone">> >>,
       <<"brick", <<"brick", "masonry">> >>,
       <<"other", <<"facade", "curtain wall", "cladding", "panel">> >> >>

\* \d+(?:\.\d+)?
Number == Concat(<<Plus(Digit), Opt(Concat(<<Lit("."), Plus(Digit)>>))>>)

\* (?:x|×|X|\*)
Times == AnyOf({"x", "×", "X", "*"})

\* mm|cm|m|ft|in
Unit == Alt(<<Lit("mm"), Lit("cm"), Lit("m"), Lit("ft"), Lit("in")>>)

\* nos?\.?
Nos == Concat(<<Lit("no"), Opt(Lit("s")), Opt(Lit("."))>>)

\* no\.?
No == Concat(<<Lit("no"), Opt(Lit("."))>>)

DIMENSION_PATTERNS ==
    << Pattern(Concat(<<Cap(1, Number), Star(Space), Times, Star(Space), Cap(2, Number),
                        Star(Space), Opt(Times), Star(Space), Opt(Cap(3, Number)),
                        Star(Space), Opt(Cap(4, Unit))>>), 4, TRUE),
       Pattern(Concat(<<Cap(1, Number), Star(Space), Cap(2, Unit), Star(Space),
                        AnyOf({"x", "×", "X"}), Star(Space), Cap(3, Number),
                        Star(Space), Cap(4, Unit)>>), 4, TRUE),
       Pattern(Concat(<<Cap(1, Number), Star(Space), Unit, Star(Space),
                        Alt(<<Lit("wide"), Lit("long"), Lit("high"), Lit("thick"),
                              Lit("deep")>>)>>), 1, TRUE),
       Pattern(Concat(<<Alt(<<Lit("width"), Lit("length"), Lit("height"), Lit("depth"),
                              Lit("thickness"), Lit("thk")>>),
                        Lit(":"), Star(Space), Cap(1, Number), Star(Space),
                        Opt(Cap(2, Unit))>>), 2, TRUE) >>

QUANTITY_PATTERNS ==
    << Pattern(Concat(<<Alt(<<Lit("qty"), Lit("quantity"), Lit("count"), No,
                              Lit("number"), Lit("qty.")>>),
                        Lit(":"), Star(Space), Cap(1, Number)>>), 1, TRUE),
       Pattern(Concat(<<Cap(1, Number), Star(Space),
                        Alt(<<Lit("pcs"), Lit("pieces"), Lit("units"), Lit("items"),
                              Lit("panels"), Lit("sheets"), Nos, Lit("nr"), Lit("ea"),
                              Lit("each")>>)>>), 1, TRUE),
       Pattern(Concat(<<Alt(<<Lit("total"), Lit("sum"), Lit("all")>>),
                        Lit(":"), Star(Space), Cap(1, Number)>>), 1, TRUE),
       Pattern(Concat(<<WordB, Cap(1, Rep(Digit, 1, 4)), Star(Space),
                        Alt(<<Lit("nr"), No, Nos, Lit("ea"), Lit("each"), Lit("num")>>),
                        WordB>>), 1, TRUE),
       Pattern(Concat(<<Bol, Star(Space), Cap(1, Rep(Digit, 1, 3)), Star(Space), Eol>>),
               1, FALSE) >>

(***************************************************************************)
(* material-parser.ts: the field extractors                                *)
(***************************************************************************)
\* the category of the last entry one of whose keywords the text includes
RECURSIVE lastCategory(_, _)
lastCategory(lowerText, entries) ==
    IF entries = <<>> THEN None
    ELSE IF \E k \in 1..Len(entries[Len(entries)][2]) :
                includes(lowerText, entries[Len(entries)][2][k])
         THEN Some(entries[Len(entries)][1])
         ELSE lastCategory(lowerText, SubSeq(entries, 1, Len(entries) - 1))

\* the category of the first entry, in declaration order, one of whose
\* keywords the text includes
RECURSIVE firstCategory(_, _)
firstCategory(lowerText, entries) ==
    IF entries = <<>> THEN None
    ELSE IF \E k \in 1..Len(Head(entries)[2]) : includes(lowerText, Head(entries)[2][k])
         THEN Some(Head(entries)[1])
         ELSE firstCategory(lowerText, Tail(entries))

extractMaterialType(text) == firstCategory(toLowerCase(text), MATERIAL_KEYWORDS)

\* the pushes of one pattern: match[0].trim() of every match with match[0]
RECURSIVE matchedTexts(_, _)
matchedTexts(s, ms) ==
    IF ms = <<>> THEN <<>>
    ELSE (IF matched(s, Head(ms)) # "" THEN << trim(matched(s, Head(ms))) >> ELSE <<>>)
         \o matchedTexts(s, Tail(ms))

RECURSIVE dimensionMatches(_, _)
dimensionMatches(text, patterns) ==
    IF patterns = <<>> THEN <<>>
    ELSE matchedTexts(text, matchAll(Head(patterns), text))
         \o dimensionMatches(text, Tail(patterns))

extractDimensions(text) == uniq(dimensionMatches(text, DIMENSION_PATTERNS))

RECURSIVE digitsValue(_, _)
digitsValue(ds, acc) ==
    IF ds = "" THEN acc ELSE digitsValue(Tail(ds), acc * 10 + DigitVal(Head(ds)))

RECURSIVE pow10(_)
pow10(k) == IF k = 0 THEN 1 ELSE 10 * pow10(k - 1)

\* the position of the decimal point, or one past the end
RECURSIVE dotIndex(_, _)
dotIndex(str, i) ==
    IF i > Len(str) \/ Ch(str, i) = "." THEN i ELSE dotIndex(str, i + 1)

decimal(whole, frac) == Rat(digitsValue(whole \o frac, 0), pow10(Len(frac)))

decimalAt(str, dot) == decimal(SubSeq(str, 1, dot - 1), SubSeq(str, dot + 1, Len(str)))

\* parseFloat of a string of the form \d+(\.\d+)?
parseFloat(str) == decimalAt(str, dotIndex(str, 1))

\* the pushes of one pattern: parseFloat(match[1]) of every match with match[1]
RECURSIVE capturedNumbers(_, _)
capturedNumbers(s, ms) ==
    IF ms = <<>> THEN <<>>
    ELSE (IF captured(s, Head(ms), 1) \notin {None, Some("")}
          THEN << parseFloat(Get(captured(s, Head(ms), 1))) >> ELSE <<>>)
         \o capturedNumbers(s, Tail(ms))

RECURSIVE quantityMatches(_, _)
quantityMatches(text, patterns) ==
    IF patterns = <<>> THEN <<>>
    ELSE capturedNumbers(text, matchAll(Head(patterns), text))
         \o quantityMatches(text, Tail(patterns))

extractQuantities(text) == quantityMatches(text, QUANTITY_PATTERNS)

(***************************************************************************)
(* The patterns of the two libraries are objects of the module, made once  *)
(* with the g flag: each has a lastIndex that outlives a call.  The        *)
(* extractors below are the ones above with that lastIndex as part of the  *)
(* state: lastIndexes.dims[k] is the lastIndex of DIMENSION_PATTERNS[k]    *)
(* and lastIndexes.qtys[k] that of QUANTITY_PATTERNS[k], counted from 0 as *)
(* in the source.                                                          *)
(***************************************************************************)
\* every pattern as the module made it
ZeroIndexes ==
    [dims |-> [k \in 1..Len(DIMENSION_PATTERNS) |-> 0],
     qtys |-> [k \in 1..Len(QUANTITY_PATTERNS) |-> 0]]

\* the lastIndex a pattern.exec(text) leaves on the pattern: the end of the
\* first match, or 0 when there is none
afterFirstExec(lastIndex, matches) ==
    IF matches = <<>> THEN 0 ELSE matches[1].end - 1

\* text.matchAll(pattern) iterates a copy of the pattern that starts at the
\* pattern's lastIndex
matchAllAt(p, s, lastIndex) == matchAllFrom(p.re, p.n, subject(p, s), lastIndex + 1)

\* the pattern's own lastIndex after text.matchAll(pattern): only the copy
\* has advanced
afterMatchAll(lastIndex, matches) == lastIndex

\* the lastIndex of each pattern after the loop over the patterns
afterPatterns(text, patterns, indexes) ==
    [k \in 1..Len(patterns) |->
        afterMatchAll(indexes[k], matchAllAt(patterns[k], text, indexes[k]))]

RECURSIVE dimensionMatchesAt(_, _, _)
dimensionMatchesAt(text, patterns, indexes) ==
    IF patterns = <<>> THEN <<>>
    ELSE matchedTexts(text, matchAllAt(Head(patterns), text, Head(indexes)))
         \o dimensionMatchesAt(text, Tail(patterns), Tail(indexes))

extractDimensionsAt(text, indexes) ==
    uniq(dimensionMatchesAt(text, DIMENSION_PATTERNS, indexes.dims))

afterExtractDimensions(text, indexes) ==
    [indexes EXCEPT !.dims = afterPatterns(text, DIMENSION_PATTERNS, indexes.dims)]

RECURSIVE quantityMatchesAt(_, _, _)
quantityMatchesAt(text, patterns, indexes) ==
    IF patterns = <<>> THEN <<>>
    ELSE capturedNumbers(text, matchAllAt(Head(patterns), text, Head(indexes)))
         \o quantityMatchesAt(text, Tail(patterns), Tail(indexes))

extractQuantitiesAt(text, indexes) ==
    quantityMatchesAt(text, QUANTITY_PATTERNS, indexes.qtys)

afterExtractQuantities(text, indexes) ==
    [indexes EXCEPT !.qtys = afterPatterns(text, QUANTITY_PATTERNS, indexes.qtys)]

\* /(\d+(?:\.\d+)?)\s*(?:x|×|X|\*)\s*(\d+(?:\.\d+)?)\s*(mm|cm|m|ft|in)?/i
AreaPattern ==
    Pattern(Concat(<<Cap(1, Number), Star(Space), Times, Star(Space), Cap(2, Number),
                     Star(Space), Opt(Cap(3, Unit))>>), 3, TRUE)

\* a length in the unit, in metres; a length in m, or in no unit the code
\* knows, is left as it is
toMetres(value, unit) ==
    CASE unit = "mm" -> RatDiv(value, 1000)
      [] unit = "cm" -> RatDiv(value, 100)
      [] unit = "ft" -> RatMul(value, Rat(3048, 10000))
      [] unit = "in" -> RatMul(value, Rat(254, 10000))
      [] OTHER -> value

\* lengthM * widthM
areaIn(length, width, unit) == RatMul(toMetres(length, unit), toMetres(width, unit))

\* (match[3] || 'mm').toLowerCase()
unitOf(unit) ==
    toLowerCase(IF unit \in {None, Some("")} THEN "mm" ELSE Get(unit))

areaOfMatch(dimensions, match) ==
    IF match = None THEN None
    ELSE Some(areaIn(parseFloat(Get(captured(dimensions, Get(match), 1))),
                     parseFloat(Get(captured(dimensions, Get(match), 2))),
                     unitOf(captured(dimensions, Get(match), 3))))

calculateArea(dimensions) == areaOfMatch(dimensions, exec(AreaPattern, dimensions))

(***************************************************************************)
(* material-parser.ts: parseMaterialData                                   *)
(***************************************************************************)
EmptyMap == <<>>

Has(m, k) == k \in DOMAIN m

\* quantities.reduce((a, b) => a + b, 0)
RECURSIVE sum(_)
sum(qs) == IF qs = <<>> THEN RatZero ELSE RatAdd(Head(qs), sum(Tail(qs)))

\* if (area): a number that is neither absent nor 0
truthy(area) == area # None /\ Get(area) # RatZero

\* /\n\n|\r\n\r\n/
ParagraphBreak == Pattern(Alt(<<Lit("\n\n"), Lit("\r\n\r\n")>>), 0, FALSE)

\* /\r?\n/
LineBreak == Pattern(Concat(<<Opt(Lit("\r")), Lit("\n")>>), 0, FALSE)

\* every trimmed line that is not empty is kept
keepLineOfAnyLength(line) == IF Len(line) > 0 THEN << line >> ELSE <<>>

\* a trimmed line is kept when it is not empty and has at least 2 characters
keepLine(line) == IF Len(line) > 0 /\ Len(line) >= 2 THEN << line >> ELSE <<>>

RECURSIVE keptLines(_)
keptLines(ls) ==
    IF ls = <<>> THEN <<>>
    ELSE keepLine(trim(Head(ls))) \o keptLines(Tail(ls))

RECURSIVE sectionsOf(_)
sectionsOf(paras) ==
    IF paras = <<>> THEN <<>>
    ELSE keptLines(split(LineBreak, Head(paras))) \o sectionsOf(Tail(paras))

paragraphsOf(text) ==
    SelectSeq(split(ParagraphBreak, text), LAMBDA p : Len(trim(p)) > 0)

paragraphsOrText(text, paragraphs) ==
    IF Len(paragraphs) > 0 THEN paragraphs ELSE << text >>

sectionsOrText(text, sections) ==
    IF Len(sections) = 0 /\ Len(trim(text)) > 0 THEN << trim(text) >> ELSE sections

textSections(text) ==
    sectionsOrText(text, sectionsOf(paragraphsOrText(text, paragraphsOf(text))))

\* the sourceTrace built from the caller's metadata
traceOf(ad) ==
    IF Has(ad, "pages")
    THEN [source |-> ad["source"],
          method |-> IF Has(ad, "method") THEN ad["method"] ELSE ad["source"],
          pageNumber |-> ad["pages"]]
    ELSE [source |-> ad["source"],
          method |-> IF Has(ad, "method") THEN ad["method"] ELSE ad["source"]]

\* rawData of an emitted record: the caller's metadata, and a sourceTrace
\* built from it when it names a source and brings no trace of its own
rawDataOf(ad) ==
    IF Has(ad, "source") /\ ad["source"] # "" /\ ~Has(ad, "sourceTrace")
    THEN Spread(ad, "sourceTrace", traceOf(ad))
    ELSE ad

\* additionalData || {}
orEmpty(additionalData) ==
    IF IsSome(additionalData) THEN Get(additionalData) ELSE EmptyMap

sectionRawData(additionalData) == rawDataOf(orEmpty(additionalData))

\* the record as first built: the quantity is the sum of the quantities
\* found, or else the area of the first dimension when it is not 0
firstPass(section, additionalData, materialType, dimensions, quantities, area) ==
    Material(materialType,
             IF Len(dimensions) > 0 THEN Some(join(dimensions, ", ")) ELSE None,
             IF Len(quantities) > 0 THEN Some(sum(quantities))
             ELSE IF Len(dimensions) > 0 /\ truthy(area) THEN area
             ELSE None,
             Some(trim(section)),
             Some(IF Len(quantities) > 0 THEN "confirmed"
                  ELSE IF Len(dimensions) > 0 /\ truthy(area) THEN "estimated"
                  ELSE "missing"),
             Some(sectionRawData(additionalData)))

\* the area taken as the quantity, the confidence left as it was
withAreaConfidenceKept(material, area) ==
    IF truthy(area)
    THEN [material EXCEPT
            !.quantity = area,
            !.rawData = Some(Spread(Spread(Get(material.rawData), "area", Get(area)),
                                    "areaUnit", "m²"))]
    ELSE material

withArea(material, area) ==
    IF truthy(area)
    THEN [material EXCEPT
            !.quantity = area,
            !.confidence = Some("estimated"),
            !.rawData = Some(Spread(Spread(Get(material.rawData), "area", Get(area)),
                                    "areaUnit", "m²"))]
    ELSE material

\* every record with dimensions takes the area of its dimensions
secondPassAlways(material) ==
    IF material.dimensions \notin {None, Some("")}
    THEN withArea(material, calculateArea(Get(material.dimensions)))
    ELSE material

\* a record with dimensions and no quantity takes the area of its dimensions
secondPassWhenAbsent(material) ==
    IF material.dimensions \notin {None, Some("")} /\ material.quantity = None
    THEN withArea(material, calculateArea(Get(material.dimensions)))
    ELSE material

\* a record with dimensions and no quantity, or quantity 0, takes the area
\* of its dimensions
secondPass(material) ==
    IF material.dimensions \notin {None, Some("")}
       /\ material.quantity \in {None, Some(RatZero)}
    THEN withArea(material, calculateArea(Get(material.dimensions)))
    ELSE material

sectionRecord(section, additionalData, materialType, dimensions, quantities) ==
    IF materialType # None \/ Len(dimensions) > 0 \/ Len(quantities) > 0
    THEN Some(secondPass(
             firstPass(section, additionalData, materialType, dimensions, quantities,
                       IF Len(quantities) = 0 /\ Len(dimensions) > 0
                       THEN calculateArea(dimensions[1]) ELSE None)))
    ELSE None

\* the record of one section, absent when the section yields no material
\* type, no dimension and no quantity
sectionMaterial(section, additionalData) ==
    sectionRecord(section, additionalData, extractMaterialType(section),
                  extractDimensions(section), extractQuantities(section))

pushed(m) == IF m = None THEN <<>> ELSE << Get(m) >>

RECURSIVE sectionMaterials(_, _)
sectionMaterials(sections, additionalData) ==
    IF sections = <<>> THEN <<>>
    ELSE pushed(sectionMaterial(Head(sections), additionalData))
         \o sectionMaterials(Tail(sections), additionalData)

\* the general entry pushed when no section gave a record
fallbackMaterial(text, additionalData) ==
    Material(None, None, None, Some(trim(text)), None, Some(orEmpty(additionalData)))

\* the records found, with no general entry
noFallback(text, additionalData, found) == found

orFallback(text, additionalData, found) ==
    IF Len(found) = 0 /\ Len(trim(text)) > 0
    THEN << fallbackMaterial(text, additionalData) >>
    ELSE found

parseMaterialData(text, additionalData) ==
    orFallback(text, additionalData, sectionMaterials(textSections(text), additionalData))

\* parseMaterialData with the lastIndex of the patterns as part of the
\* state: the records, and the lastIndexes the call leaves
afterSection(section, indexes) ==
    afterExtractQuantities(section, afterExtractDimensions(section, indexes))

sectionMaterialAt(section, additionalData, indexes) ==
    sectionRecord(section, additionalData, extractMaterialType(section),
                  extractDimensionsAt(section, indexes),
                  extractQuantitiesAt(section, indexes))

pushedBefore(ms, rest) ==
    [materials |-> ms \o rest.materials, lastIndexes |-> rest.lastIndexes]

RECURSIVE sectionMaterialsAt(_, _, _)
sectionMaterialsAt(sections, additionalData, indexes) ==
    IF sections = <<>> THEN [materials |-> <<>>, lastIndexes |-> indexes]
    ELSE pushedBefore(pushed(sectionMaterialAt(Head(sections), additionalData, indexes)),
                      sectionMaterialsAt(Tail(sections), additionalData,
                                         afterSection(Head(sections), indexes)))

returned(text, additionalData, found) ==
    [value |-> orFallback(text, additionalData, found.materials),
     lastIndexes |-> found.lastIndexes]

parseMaterialDataAt(text, additionalData, indexes) ==
    returned(text, additionalData,
             sectionMaterialsAt(textSections(text), additionalData, indexes))

(***************************************************************************)
(* material-parser.ts: parseTableRow                                       *)
(***************************************************************************)
\* TableRow (types/index.ts)
TableRow(cells, columnRoles, rowIndex, tableName) ==
    [cells |-> cells, columnRoles |-> columnRoles, rowIndex |-> rowIndex,
     tableName |-> tableName]

\* /^\d{1,3}$/
BareQuantity == Pattern(Concat(<<Bos, Rep(Digit, 1, 3), Eos>>), 0, FALSE)

\* /\d+\s*[x×X*]\s*\d+/
SizeLike ==
    Pattern(Concat(<<Plus(Digit), Star(Space), AnyOf({"x", "×", "X", "*"}), Star(Space),
                     Plus(Digit)>>), 0, FALSE)

NoCells == [descCell |-> "", qtyCell |-> "", sizeCell |-> ""]

\* one column: the cell is stored under its role, or, when the row has no
\* roles at all, under the role its content suggests
assignCell(acc, role, val, noRoles) ==
    IF role = "desc" THEN [acc EXCEPT !.descCell = val]
    ELSE IF role = "qty" THEN [acc EXCEPT !.qtyCell = val]
    ELSE IF role = "size" THEN [acc EXCEPT !.sizeCell = val]
    ELSE IF noRoles
    THEN IF extractMaterialType(val) # None THEN [acc EXCEPT !.descCell = val]
         ELSE IF test(BareQuantity, val) THEN [acc EXCEPT !.qtyCell = val]
         ELSE IF test(SizeLike, val) THEN [acc EXCEPT !.sizeCell = val]
         ELSE acc
    ELSE acc

RECURSIVE assignCells(_, _, _, _)
assignCells(cells, roles, col, acc) ==
    IF col > Len(cells) THEN acc
    ELSE assignCells(cells, roles, col + 1,
                     assignCell(acc, IF col <= Len(roles) THEN roles[col] ELSE "",
                                trim(cells[col]), Len(roles) = 0))

RECURSIVE digitPrefix(_)
digitPrefix(str) ==
    IF str # "" /\ IsDigit(Head(str)) THEN Head(str) \o digitPrefix(Tail(str)) ELSE ""

intOf(negative, ds) ==
    IF ds = "" THEN None
    ELSE Some(IF negative THEN 0 - digitsValue(ds, 0) ELSE digitsValue(ds, 0))

signedDigits(t) ==
    intOf(t # "" /\ Head(t) = "-",
          digitPrefix(IF t # "" /\ Head(t) \in {"-", "+"} THEN Tail(t) ELSE t))

\* parseInt(str, 10): absent for NaN
parseInt(str) == signedDigits(trimStart(str))

hasQty(qtyNum) == qtyNum # None /\ Get(qtyNum) >= 0

hasDims(dimStr) == dimStr \notin {None, Some("")}

rowMaterial(row, cell, materialType, dimStr, qtyNum, area) ==
    Material(materialType, dimStr,
             IF hasQty(qtyNum) THEN Some(Int2Rat(Get(qtyNum)))
             ELSE IF hasDims(dimStr) /\ area # None THEN area
             ELSE None,
             Some(IF cell.descCell # "" THEN cell.descCell ELSE join(row.cells, " | ")),
             Some(IF hasQty(qtyNum) THEN "confirmed"
                  ELSE IF hasDims(dimStr) /\ area # None THEN "estimated"
                  ELSE "missing"),
             Some([source |-> "dwg", method |-> "table",
                   sourceTrace |-> [entityType |-> "ACAD_TABLE",
                                    tableName |-> row.tableName,
                                    rowIndex |-> row.rowIndex]]))

rowRecord(row, cell, materialType, dimStr, qtyNum) ==
    IF materialType = None /\ cell.descCell = "" /\ ~hasQty(qtyNum) /\ ~hasDims(dimStr)
    THEN None
    ELSE Some(rowMaterial(row, cell, materialType, dimStr, qtyNum,
                          IF ~hasQty(qtyNum) /\ hasDims(dimStr)
                          THEN calculateArea(Get(dimStr)) ELSE None))

dimStrOf(dimensions) ==
    IF Len(dimensions) > 0 THEN Some(join(dimensions, ", ")) ELSE None

rowOfCells(row, cell) ==
    rowRecord(row, cell,
              extractMaterialType(IF cell.descCell # "" THEN cell.descCell
                                  ELSE join(row.cells, " ")),
              dimStrOf(IF cell.sizeCell # "" THEN extractDimensions(cell.sizeCell)
                       ELSE <<>>),
              IF cell.qtyCell # "" THEN parseInt(cell.qtyCell) ELSE None)

parseTableRow(row) ==
    rowOfCells(row, assignCells(row.cells,
                                IF IsSome(row.columnRoles) THEN Get(row.columnRoles)
                                ELSE <<>>,
                                1, NoCells))

(***************************************************************************)
(* deduplicate-materials.ts on objects.  objs is the sequence of the       *)
(* objects alive, an object's address its place in it; the rawData of a    *)
(* record object is the address of another object.  list is the array      *)
(* passed to the next call: the result of the last one.                    *)
(***************************************************************************)
\* the objects of a list of records: record j at address j, its rawData,
\* when it has one, at address Len(ms) + j
heapOf(ms) ==
    [a \in 1..(2 * Len(ms)) |->
        IF a <= Len(ms)
        THEN [ms[a] EXCEPT !.rawData = IF @ = None THEN None ELSE Some(Len(ms) + a)]
        ELSE orEmpty(ms[a - Len(ms)].rawData)]

\* the record at an address, its rawData read through
valueAt(objs, a) ==
    [objs[a] EXCEPT !.rawData = IF @ = None THEN None ELSE Some(objs[Get(@)])]

values(objs, refs) == [i \in 1..Len(refs) |-> valueAt(objs, refs[i])]

\* the address of best
bestRef(objs, refs) ==
    best([i \in 1..Len(refs) |->
             [ref |-> refs[i], confidence |-> objs[refs[i]].confidence]]).ref

\* best itself takes the annotations and is pushed
assignBest(h, b, annotations) ==
    [objs |-> [h.objs EXCEPT ![b].annotations =
                   IF annotations # "" THEN Some(annotations) ELSE @],
     list |-> Append(h.list, b)]

\* merged = { ...best, annotations: annotations || best.annotations }, a
\* new object that shares best's rawData, pushed to result
spreadBest(h, b, annotations) ==
    [objs |-> Append(h.objs,
                     [h.objs[b] EXCEPT !.annotations =
                          IF annotations # "" THEN Some(annotations) ELSE @]),
     list |-> Append(h.list, Len(h.objs) + 1)]

\* merged.rawData = { ...merged.rawData, sourceTrace, sourceTraceCount }:
\* a new object, written to the rawData field of merged
setRawData(h, merged, traces) ==
    IF Len(traces) > 0
    THEN [objs |-> Append([h.objs EXCEPT ![merged].rawData = Some(Len(h.objs) + 1)],
                          Spread(Spread(IF h.objs[merged].rawData = None THEN EmptyMap
                                        ELSE h.objs[Get(h.objs[merged].rawData)],
                                        "sourceTrace", traces[1]),
                                 "sourceTraceCount", Len(traces))),
          list |-> h.list]
    ELSE h

mergedRef(h) == h.list[Len(h.list)]

withRawData(h, traces) == setRawData(h, mergedRef(h), traces)

\* the loop body for the group at the addresses refs
mergeRefs(h, refs) ==
    withRawData(spreadBest(h, bestRef(h.objs, refs),
                           mergedAnnotations(values(h.objs, refs))),
                groupTraces(values(h.objs, refs)))

RECURSIVE mergeAll(_, _, _)
mergeAll(h, refs, keys) ==
    IF keys = <<>> THEN h
    ELSE mergeAll(mergeRefs(h, SelectSeq(refs, LAMBDA a :
                                normalizeKey(h.objs[a]) = Head(keys))),
                  refs, Tail(keys))

\* deduplicateMaterials called with the array of the addresses refs
dedupObjects(objs, refs) ==
    mergeAll([objs |-> objs, list |-> <<>>], refs, byKeyKeys(values(objs, refs)))

(***************************************************************************)
(* db.ts: validateMaterials and computeDataQualityMetrics                  *)
(***************************************************************************)
\* !!s?.trim()
hasText(s) == s # None /\ trim(Get(s)) # ""

\* m.quantity != null && m.quantity > 0
hasQuantity(m) == m.quantity # None /\ Get(m.quantity).n > 0

\* the rules, whose check is the operator check below
DEFAULT_RULES ==
    << [id |-> "has-material-type", name |-> "Material type identified",
        severity |-> "warning"],
       [id |-> "has-dimensions", name |-> "Dimensions specified", severity |-> "info"],
       [id |-> "has-quantity", name |-> "Quantity present", severity |-> "warning"],
       [id |-> "has-source-trace", name |-> "Source traceability", severity |-> "info"],
       [id |-> "has-annotations", name |-> "Raw text/annotations", severity |-> "info"] >>

\* rule.check(m)
check(rule, m) ==
    CASE rule.id = "has-material-type" -> hasText(m.materialType)
      [] rule.id = "has-dimensions" -> hasText(m.dimensions)
      [] rule.id = "has-quantity" -> hasQuantity(m)
      [] rule.id = "has-source-trace" -> sourceTraceOf(m) # None
      [] rule.id = "has-annotations" -> hasText(m.annotations)

\* the first rule that m fails, alone
firstFailedRule(m) ==
    SubSeq(SelectSeq(DEFAULT_RULES, LAMBDA rule : ~check(rule, m)), 1,
           IF \E k \in 1..Len(DEFAULT_RULES) : ~check(DEFAULT_RULES[k], m) THEN 1 ELSE 0)

\* the rules of the inner loop for which passed is false
failedRules(m) == SelectSeq(DEFAULT_RULES, LAMBDA rule : ~check(rule, m))

\* the entries pushed for materials[i]
pushedFor(i, rules) ==
    [k \in 1..Len(rules) |->
        [materialIndex |-> i, ruleId |-> rules[k].id, ruleName |-> rules[k].name,
         severity |-> rules[k].severity, message |-> "Missing: " \o rules[k].name]]

RECURSIVE validateFrom(_, _)
validateFrom(ms, i) ==
    IF i >= Len(ms) THEN <<>>
    ELSE pushedFor(i, failedRules(ms[i + 1])) \o validateFrom(ms, i + 1)

validateMaterials(ms) == validateFrom(ms, 0)

\* the number of records for which a test of the loop does not hold
countFailed(tested) == Cardinality({ i \in 1..Len(tested) : ~tested[i] })

\* the number of records for which a test of the loop holds
count(tested) == Cardinality({ i \in 1..Len(tested) : tested[i] })

\* count / total, without the factor 100
fraction(n, total) == Rat(n, total)

\* (count / total) * 100
fillRate(n, total) == RatMul(Rat(n, total), Int2Rat(100))

\* m.materialType?.trim() && m.dimensions?.trim() && (m.quantity ?? 0) > 0
isComplete(m) ==
    /\ hasText(m.materialType)
    /\ hasText(m.dimensions)
    /\ (IF m.quantity = None THEN 0 ELSE Get(m.quantity).n) > 0

\* m.confidence ?? 'missing', counted as missing unless confirmed or estimated
confidenceOf(m) ==
    IF m.confidence \in {Some("confirmed"), Some("estimated")} THEN Get(m.confidence)
    ELSE "missing"

computeDataQualityMetrics(ms) ==
    IF Len(ms) = 0
    THEN [total |-> 0, withMaterialType |-> 0, withDimensions |-> 0, withQuantity |-> 0,
          withSourceTrace |-> 0, confirmed |-> 0, estimated |-> 0, missing |-> 0,
          fillRateMaterialType |-> RatZero, fillRateDimensions |-> RatZero,
          fillRateQuantity |-> RatZero, fillRateComplete |-> RatZero]
    ELSE [total |-> Len(ms),
          withMaterialType |-> count([i \in 1..Len(ms) |-> hasText(ms[i].materialType)]),
          withDimensions |-> count([i \in 1..Len(ms) |-> hasText(ms[i].dimensions)]),
          withQuantity |-> count([i \in 1..Len(ms) |-> hasQuantity(ms[i])]),
          withSourceTrace |-> count([i \in 1..Len(ms) |-> sourceTraceOf(ms[i]) # None]),
          confirmed |-> count([i \in 1..Len(ms) |-> confidenceOf(ms[i]) = "confirmed"]),
          estimated |-> count([i \in 1..Len(ms) |-> confidenceOf(ms[i]) = "estimated"]),
          missing |-> count([i \in 1..Len(ms) |-> confidenceOf(ms[i]) = "missing"]),
          fillRateMaterialType |->
              fillRate(count([i \in 1..Len(ms) |-> hasText(ms[i].materialType)]), Len(ms)),
          fillRateDimensions |->
              fillRate(count([i \in 1..Len(ms) |-> hasText(ms[i].dimensions)]), Len(ms)),
          fillRateQuantity |->
              fillRate(count([i \in 1..Len(ms) |-> hasQuantity(ms[i])]), Len(ms)),
          fillRateComplete |->
              fillRate(count([i \in 1..Len(ms) |-> isComplete(ms[i])]), Len(ms))]

(***************************************************************************)
(* app/api/extract/route.ts.  The database, the blob store and the file    *)
(* system are shared by the requests in flight; a request is a record of   *)
(* the handler's local variables and of where the handler stands, and it   *)
(* gives way to the other requests at each await.                          *)
(***************************************************************************)
\* no request handler runs
NoRoute ==
    /\ drawings = <<>>
    /\ extractedData = <<>>
    /\ blobs = <<>>
    /\ files = <<>>
    /\ requests = <<>>

\* filePath.startsWith(prefix)
startsWith(s, prefix) == Len(s) >= Len(prefix) /\ SubSeq(s, 1, Len(prefix)) = prefix

\* filePath.startsWith('http://') || filePath.startsWith('https://')
isUrl(filePath) == startsWith(filePath, "http://") \/ startsWith(filePath, "https://")

PendingUpload == "pending-client-upload"

\* join(tmpdir(), `drawing-${drawingId}${ext}`)
tmpPathOf(drawingId, fileType) ==
    "/tmp/drawing-" \o drawingId \o (IF fileType = "pdf" THEN ".pdf" ELSE ".dwg")

\* a path holds no file, a file that writeFile has opened and not yet
\* filled, or a file with its content
Absent == "absent"
Partial == "partial"

\* the message of an error thrown by a call of the database client
DatabaseError == "Database error"

NewRequest(drawingId) ==
    [pc |-> "json", drawingId |-> drawingId, drawing |-> None, polls |-> 0,
     localPath |-> None, filePath |-> None, materials |-> <<>>, thrown |-> None,
     response |-> None]

\* NextResponse.json({ error }, { status })
ErrorResponse(status, error) == [status |-> status, error |-> error, details |-> None]

\* the response of the outer catch
FailureResponse(details) ==
    [status |-> 500, error |-> "Failed to extract materials", details |-> Some(details)]

\* NextResponse.json({ success: true, materials, count })
SuccessResponse(found) == [status |-> 200, error |-> "", details |-> None]

\* the handler returns the response
Respond(request, response) == [request EXCEPT !.pc = "returned", !.response = Some(response)]

\* an error that passes the inner catch by and reaches the finally block
ThrowPastCatch(request, message) ==
    [request EXCEPT !.pc = "finally", !.thrown = Some(message)]

\* an error thrown inside the inner try
Throw(request, message) == [request EXCEPT !.pc = "catch", !.thrown = Some(message)]

\* what processPDF returns or throws for what the path holds
processPDF(held) ==
    IF held = Absent THEN [thrown |-> Some("Failed to process PDF: ENOENT"), materials |-> <<>>]
    ELSE IF held = "text" THEN [thrown |-> None, materials |-> << "material" >>]
    ELSE [thrown |-> Some("Failed to process PDF: invalid file"), materials |-> <<>>]

\* what processDWG may return or throw for what the path holds: the handler
\* imports it from lib/dwg-processor, a module whose code is not modelled
\* here, so that a call may find materials, find none, or throw
processDWG(held) ==
    { [thrown |-> None, materials |-> << "material" >>],
      [thrown |-> None, materials |-> <<>>],
      [thrown |-> Some("DWG processing failed"), materials |-> <<>>] }

\* the rows the loop of creates adds, a failed create adding none
createdRows(drawingId, found, ok) ==
    IF ok THEN [k \in 1..Len(found) |-> [drawingId |-> drawingId, annotations |-> found[k]]]
    ELSE <<>>

\* the row added when no material was found
placeholderRow(drawingId) ==
    << [drawingId |-> drawingId, annotations |-> "No materials extracted from this drawing"] >>

(***************************************************************************)
(* The deduplicator applied to a list of records, and to its own result.   *)
(***************************************************************************)
MaxMaterials == 3

Trace(page) == [source |-> "pdf", method |-> "pdf", pageNumber |-> page]

\* materialType, dimensions, quantity: two spellings of one key, and the
\* record with none of the three
KeyFields ==
    { <<Some("glass"), Some("1200x600"), Some(Int2Rat(5))>>,
      <<Some("Glass "), Some(" 1200x600"), Some(Int2Rat(5))>>,
      <<None, None, None>> }

\* annotations, confidence, rawData: where a record was mentioned
Mentions ==
    { <<Some("Window A"), Some("confirmed"), Some([source |-> "pdf", sourceTrace |-> Trace(1)])>>,
      <<Some("Window B"), Some("estimated"), Some([source |-> "pdf", sourceTrace |-> Trace(2)])>>,
      <<None, Some("confirmed"), None>>,
      <<Some(""), Some("missing"), Some([source |-> "pdf"])>> }

\* two records whose materialType and dimensions hold the character "|"
BarRecords ==
    { Material(Some("acp|1200"), Some("600"), None, Some("Panel A"), Some("confirmed"), None),
      Material(Some("acp"), Some("1200|600"), None, Some("Panel B"), Some("estimated"), None) }

MaterialUniverse ==
    { Material(k[1], k[2], k[3], n[1], n[2], n[3]) : k \in KeyFields, n \in Mentions }
    \cup BarRecords

MaterialLists ==
    UNION { [1..n -> MaterialUniverse] : n \in 0..MaxMaterials }

NoRow == TableRow(<<>>, None, 0, None)

InitDedup ==
    /\ pc = "input"
    /\ fn = "deduplicateMaterials"
    /\ argText = ""
    /\ argData = None
    /\ argRow = NoRow
    /\ result = None
    /\ materials \in MaterialLists
    /\ deduped = <<>>
    /\ rededuped = <<>>
    /\ heap = [objs |-> heapOf(materials), list |-> [j \in 1..Len(materials) |-> j]]
    /\ lastIndexes = ZeroIndexes
    /\ calls = 0
    /\ NoRoute

Dedup ==
    /\ pc = "input"
    /\ deduped' = deduplicateMaterials(materials)
    /\ heap' = dedupObjects(heap.objs, heap.list)
    /\ pc' = "deduped"
    /\ UNCHANGED <<callVars, materials, rededuped, routeVars>>

DedupAgain ==
    /\ pc = "deduped"
    /\ rededuped' = deduplicateMaterials(deduped)
    /\ heap' = dedupObjects(heap.objs, heap.list)
    /\ pc' = "rededuped"
    /\ UNCHANGED <<callVars, materials, deduped, routeVars>>

NextDedup == Dedup \/ DedupAgain

SpecDedup == InitDedup /\ [][NextDedup]_vars

(***************************************************************************)
(* The parser's exported functions, each called once on an input.          *)
(***************************************************************************)
\* free text: a quantity phrase, a dimension and a description, any of
\* them left out
QuantityPhrases == { "", "Qty: 5, ", "Qty: 0, ", "5 nos " }

DimensionPhrases ==
    { "", "1200x600mm", "1200x600", "1200mm x 600mm", "0x600mm", "120 x 60 x 4 cm" }

Descriptions == { "", " glass panel", " aluminum composite panel door", " gibberish 8492" }

\* blank texts, one-character lines and texts of several lines
OtherTexts ==
    { "   ", " \n\t\n", "a", "7", "3\n4", "random unparseable gibberish 8492",
      "Window\n\n12 pcs 1200x600\r\nsteel\nx" }

Texts ==
    { q \o d \o w : q \in QuantityPhrases, d \in DimensionPhrases, w \in Descriptions }
    \cup OtherTexts

Metadata ==
    { None, Some(EmptyMap), Some([source |-> "pdf"]),
      Some([source |-> "dwg", method |-> "text", pages |-> 3]) }

DimensionStrings ==
    { "1200x600", "1200mm x 600mm", "1200x600mm", "1200 X 600 MM", "120x60cm",
      "120 x 60 x 4 cm", "1.2*0.6m", "4x8ft", "10×20in", "1200mm wide", "",
      "120 x 60 x 4 mm", "120 x 60 x 4 m", "120 x 60 x 4 ft", "120 x 60 x 4 in" }

TypeTexts ==
    { "aluminum composite panel door", "Aluminium mullion", "stainless steel",
      "composite deck", "Glazing unit", "reinforced concrete", "granite", "masonry",
      "facade", "curtain wall", "cladding", "panel", "glass panel", "door", "" }

CellTexts == { "", "Glass panel", "12", "7", "1200x600", "1200mm x 600mm", "n/a" }

Rows ==
    { TableRow(<<a, b, c>>, roles, 0, Some("Schedule")) :
        a \in CellTexts, b \in CellTexts, c \in CellTexts,
        roles \in { None, Some(<<"desc", "qty", "size">>), Some(<<"desc", "qty">>) } }

InitParse ==
    /\ pc = "call"
    /\ result = None
    /\ materials = <<>>
    /\ deduped = <<>>
    /\ rededuped = <<>>
    /\ heap = [objs |-> <<>>, list |-> <<>>]
    /\ lastIndexes = ZeroIndexes
    /\ calls = 0
    /\ NoRoute
    /\ \/ fn = "parseMaterialData" /\ argText \in Texts /\ argData \in Metadata
          /\ argRow = NoRow
       \/ fn = "parseTableRow" /\ argRow \in Rows /\ argText = "" /\ argData = None
       \/ fn = "calculateArea" /\ argText \in DimensionStrings /\ argData = None
          /\ argRow = NoRow
       \/ fn = "extractMaterialType" /\ argText \in TypeTexts /\ argData = None
          /\ argRow = NoRow

Return(value) ==
    /\ result' = value
    /\ pc' = "return"
    /\ UNCHANGED <<fn, argText, argData, argRow, dedupVars, lastIndexes, calls, routeVars>>

ParseMaterialData ==
    pc = "call" /\ fn = "parseMaterialData" /\ Return(parseMaterialData(argText, argData))

ParseTableRow ==
    pc = "call" /\ fn = "parseTableRow" /\ Return(parseTableRow(argRow))

CalculateArea ==
    pc = "call" /\ fn = "calculateArea" /\ Return(calculateArea(argText))

ExtractMaterialType ==
    pc = "call" /\ fn = "extractMaterialType" /\ Return(extractMaterialType(argText))

NextParse == ParseMaterialData \/ ParseTableRow \/ CalculateArea \/ ExtractMaterialType

SpecParse == InitParse /\ [][NextParse]_vars

(***************************************************************************)
(* The parser's functions called one after another in one instance of the  *)
(* module, each call on any input, the patterns keeping between two calls  *)
(* whatever lastIndex the call before left them.  The functions are        *)
(* synchronous, so two calls never overlap: an interleaving of callers is  *)
(* a sequence of calls.                                                    *)
(***************************************************************************)
MaxCalls == 3

InitCalls ==
    /\ pc = "idle"
    /\ fn = ""
    /\ argText = ""
    /\ argData = None
    /\ argRow = NoRow
    /\ result = None
    /\ materials = <<>>
    /\ deduped = <<>>
    /\ rededuped = <<>>
    /\ heap = [objs |-> <<>>, list |-> <<>>]
    /\ lastIndexes = ZeroIndexes
    /\ calls = 0
    /\ NoRoute

\* some caller calls one of the functions on some text
Call ==
    /\ pc \in {"idle", "return"}
    /\ calls < MaxCalls
    /\ fn' \in {"extractDimensions", "extractQuantities", "parseMaterialData"}
    /\ argText' \in Texts
    /\ result' = None
    /\ pc' = "call"
    /\ UNCHANGED <<argData, argRow, dedupVars, lastIndexes, calls, routeVars>>

ReturnAt(value, indexes) ==
    /\ result' = value
    /\ lastIndexes' = indexes
    /\ calls' = calls + 1
    /\ pc' = "return"
    /\ UNCHANGED <<fn, argText, argData, argRow, dedupVars, routeVars>>

ReturnBoth(r) == ReturnAt(r.value, r.lastIndexes)

ExtractDimensions ==
    /\ pc = "call"
    /\ fn = "extractDimensions"
    /\ ReturnAt(extractDimensionsAt(argText, lastIndexes),
                afterExtractDimensions(argText, lastIndexes))

ExtractQuantities ==
    /\ pc = "call"
    /\ fn = "extractQuantities"
    /\ ReturnAt(extractQuantitiesAt(argText, lastIndexes),
                afterExtractQuantities(argText, lastIndexes))

ParseMaterialDataAt ==
    /\ pc = "call"
    /\ fn = "parseMaterialData"
    /\ ReturnBoth(parseMaterialDataAt(argText, argData, lastIndexes))

NextCalls == Call \/ ExtractDimensions \/ ExtractQuantities \/ ParseMaterialDataAt

SpecCalls == InitCalls /\ [][NextCalls]_vars

(***************************************************************************)
(* The validation functions, each called once on a list of records.        *)
(***************************************************************************)
MaxMeasured == 2

\* materialType, dimensions, quantity: all present, blank or 0, absent,
\* and a quantity below 0
MeasuredFields ==
    { <<Some("glass"), Some("1200x600"), Some(Int2Rat(5))>>,
      <<Some("  "), None, Some(RatZero)>>,
      <<None, Some(" "), None>>,
      <<Some("steel"), Some("2x3"), Some(Int2Rat(0 - 3))>> }

MeasuredUniverse ==
    { Material(k[1], k[2], k[3], n[1], n[2], n[3]) :
        k \in MeasuredFields,
        n \in Mentions \cup { <<Some("  "), None, Some(EmptyMap)>> } }

MeasuredLists == UNION { [1..n -> MeasuredUniverse] : n \in 0..MaxMeasured }

InitQuality ==
    /\ pc = "call"
    /\ fn \in {"validateMaterials", "computeDataQualityMetrics"}
    /\ argText = ""
    /\ argData = None
    /\ argRow = NoRow
    /\ result = None
    /\ materials \in MeasuredLists
    /\ deduped = <<>>
    /\ rededuped = <<>>
    /\ heap = [objs |-> <<>>, list |-> <<>>]
    /\ lastIndexes = ZeroIndexes
    /\ calls = 0
    /\ NoRoute

ValidateMaterials ==
    pc = "call" /\ fn = "validateMaterials" /\ Return(validateMaterials(materials))

ComputeDataQualityMetrics ==
    /\ pc = "call"
    /\ fn = "computeDataQualityMetrics"
    /\ Return(computeDataQualityMetrics(materials))

NextQuality == ValidateMaterials \/ ComputeDataQualityMetrics

SpecQuality == InitQuality /\ [][NextQuality]_vars

(***************************************************************************)
(* POST /api/extract, two requests in flight at once over one database,    *)
(* one blob store and one file system.  A step of a request is the code    *)
(* from one await to the next.  A call of the database client succeeds or  *)
(* throws.  The polling loop of the handler runs until its deadline, which *)
(* passes after at least one and at most MaxPolls rounds.                  *)
(***************************************************************************)
MaxPolls == 2

Requests == {"r1", "r2"}

BlobUrl == "https://blob.example/d1.pdf"

LocalPath == "/uploads/d1.pdf"

Paths == { LocalPath, tmpPathOf("d1", "pdf"), tmpPathOf("d1", "dwg") }

coreVars == <<pc, callVars, dedupVars>>

InitExtract ==
    /\ pc = "serve"
    /\ fn = "POST"
    /\ argText = ""
    /\ argData = None
    /\ argRow = NoRow
    /\ result = None
    /\ materials = <<>>
    /\ deduped = <<>>
    /\ rededuped = <<>>
    /\ heap = [objs |-> <<>>, list |-> <<>>]
    /\ lastIndexes = ZeroIndexes
    /\ calls = 0
    /\ drawings \in
          { [id \in {"d1"} |->
                [id |-> id, filePath |-> filePath, fileType |-> fileType, status |-> status]] :
              filePath \in {PendingUpload, BlobUrl, LocalPath},
              fileType \in {"pdf", "dwg", "dxf"},
              status \in {"pending", "completed"} }
    /\ extractedData = <<>>
    /\ blobs \in { [url \in {BlobUrl} |-> held] : held \in {"text", "corrupt", Absent} }
    /\ files \in
          { [path \in Paths |-> IF path = LocalPath THEN held ELSE Absent] :
              held \in {"text", Absent} }
    /\ requests \in [Requests -> { NewRequest(drawingId) : drawingId \in {"", "dx", "d1"} }]

\* the drawing a request works on, as the handler read it
drawingOf(r) == Get(requests[r].drawing)

\* const { drawingId } = await request.json()
Json(r) ==
    /\ requests[r].pc = "json"
    /\ requests' = [requests EXCEPT ![r] =
          IF requests[r].drawingId = ""
          THEN Respond(requests[r], ErrorResponse(400, "Drawing ID is required"))
          ELSE [requests[r] EXCEPT !.pc = "findUnique"]]
    /\ UNCHANGED <<coreVars, drawings, extractedData, blobs, files>>

\* let drawing = await prisma.drawing.findUnique(...)
FindUnique(r) ==
    /\ requests[r].pc = "findUnique"
    /\ \E ok \in BOOLEAN :
          requests' = [requests EXCEPT ![r] =
              IF ~ok THEN Respond(requests[r], FailureResponse(DatabaseError))
              ELSE IF requests[r].drawingId \notin DOMAIN drawings
              THEN Respond(requests[r], ErrorResponse(404, "Drawing not found"))
              ELSE [requests[r] EXCEPT
                      !.drawing = Some(drawings[requests[r].drawingId]),
                      !.pc = IF drawings[requests[r].drawingId].filePath = PendingUpload
                             THEN "poll" ELSE "update"]]
    /\ UNCHANGED <<coreVars, drawings, extractedData, blobs, files>>

\* one round of the loop: the wait, and the drawing read again
Poll(r) ==
    /\ requests[r].pc = "poll"
    /\ requests[r].polls < MaxPolls
    /\ \E ok \in BOOLEAN :
          requests' = [requests EXCEPT ![r] =
              IF ~ok THEN Respond(requests[r], FailureResponse(DatabaseError))
              ELSE IF /\ drawings[requests[r].drawingId].filePath # PendingUpload
                      /\ startsWith(drawings[requests[r].drawingId].filePath, "http")
              THEN [requests[r] EXCEPT
                      !.drawing = Some(drawings[requests[r].drawingId]),
                      !.pc = "update"]
              ELSE [requests[r] EXCEPT !.polls = requests[r].polls + 1]]
    /\ UNCHANGED <<coreVars, drawings, extractedData, blobs, files>>

\* the deadline has passed and the drawing in hand is still pending
Deadline(r) ==
    /\ requests[r].pc = "poll"
    /\ requests[r].polls >= 1
    /\ requests' = [requests EXCEPT ![r] =
          Respond(requests[r],
                  ErrorResponse(503, "Upload still processing. Please try extraction again in a few seconds."))]
    /\ UNCHANGED <<coreVars, drawings, extractedData, blobs, files>>

\* await prisma.drawing.update({ data: { status: 'processing' } })
UpdateProcessing(r) ==
    /\ requests[r].pc = "update"
    /\ \E ok \in BOOLEAN :
          /\ drawings' =
                IF ok
                THEN [drawings EXCEPT ![requests[r].drawingId].status = "processing"]
                ELSE drawings
          /\ requests' = [requests EXCEPT ![r] =
                IF ok THEN [requests[r] EXCEPT !.pc = "fetch"]
                ELSE Respond(requests[r], FailureResponse(DatabaseError))]
    /\ UNCHANGED <<coreVars, extractedData, blobs, files>>

\* resolveFilePath up to its writeFile: the blob is fetched, or the path
\* is a local one and is returned as it is
Fetch(r) ==
    /\ requests[r].pc = "fetch"
    /\ requests' = [requests EXCEPT ![r] =
          IF isUrl(drawingOf(r).filePath)
          THEN IF blobs[drawingOf(r).filePath] = Absent
               THEN Throw(requests[r], "Blob fetch failed")
               ELSE [requests[r] EXCEPT !.pc = "writeFile"]
          ELSE [requests[r] EXCEPT
                  !.filePath = Some(drawingOf(r).filePath), !.pc = "access"]]
    /\ UNCHANGED <<coreVars, drawings, extractedData, blobs, files>>

\* writeFile opens the temporary path, emptying the file that is there
WriteFileOpen(r) ==
    /\ requests[r].pc = "writeFile"
    /\ files' = [files EXCEPT ![tmpPathOf(drawingOf(r).id, drawingOf(r).fileType)] = Partial]
    /\ requests' = [requests EXCEPT ![r].pc = "writing"]
    /\ UNCHANGED <<coreVars, drawings, extractedData, blobs>>

\* writeFile has written the buffer, into a file that is at the path
\* unless it was unlinked in between; resolveFilePath returns the path
WriteFileClose(r) ==
    /\ requests[r].pc = "writing"
    /\ files' = [files EXCEPT ![tmpPathOf(drawingOf(r).id, drawingOf(r).fileType)] =
                    IF @ = Absent THEN Absent ELSE blobs[drawingOf(r).filePath]]
    /\ requests' = [requests EXCEPT ![r] =
          [requests[r] EXCEPT
              !.filePath = Some(tmpPathOf(drawingOf(r).id, drawingOf(r).fileType)),
              !.localPath = Some(tmpPathOf(drawingOf(r).id, drawingOf(r).fileType)),
              !.pc = "access"]]
    /\ UNCHANGED <<coreVars, drawings, extractedData, blobs>>

\* await fs.access(filePath)
Access(r) ==
    /\ requests[r].pc = "access"
    /\ requests' = [requests EXCEPT ![r] =
          IF Get(requests[r].filePath) \notin DOMAIN files
             \/ files[Get(requests[r].filePath)] = Absent
          THEN Throw(requests[r], "File not found at path")
          ELSE [requests[r] EXCEPT !.pc = "process"]]
    /\ UNCHANGED <<coreVars, drawings, extractedData, blobs, files>>

\* the processor has returned or thrown
Processed(request, out) ==
    IF out.thrown # None THEN Throw(request, Get(out.thrown))
    ELSE [request EXCEPT !.materials = out.materials, !.pc = "create"]

\* materials = await processPDF(filePath), or processDWG(filePath)
Process(r) ==
    /\ requests[r].pc = "process"
    /\ \E out \in processDWG(files[Get(requests[r].filePath)]) :
          requests' = [requests EXCEPT ![r] =
             IF drawingOf(r).fileType = "pdf"
             THEN Processed(requests[r], processPDF(files[Get(requests[r].filePath)]))
             ELSE IF drawingOf(r).fileType = "dwg"
             THEN Processed(requests[r], out)
             ELSE Throw(requests[r], "Unsupported file type")]
    /\ UNCHANGED <<coreVars, drawings, extractedData, blobs, files>>

\* the rows are saved: one per material, a row that cannot be saved being
\* skipped, or the placeholder row
Create(r) ==
    /\ requests[r].pc = "create"
    /\ \E ok \in BOOLEAN :
          /\ extractedData' =
                IF Len(requests[r].materials) > 0
                THEN extractedData \o createdRows(drawingOf(r).id, requests[r].materials, ok)
                ELSE IF ok THEN extractedData \o placeholderRow(drawingOf(r).id)
                ELSE extractedData
          /\ requests' = [requests EXCEPT ![r] =
                IF Len(requests[r].materials) = 0 /\ ~ok
                THEN Throw(requests[r], DatabaseError)
                ELSE [requests[r] EXCEPT !.pc = "complete"]]
    /\ UNCHANGED <<coreVars, drawings, blobs, files>>

\* await prisma.drawing.update({ data: { status: 'completed' } })
UpdateCompleted(r) ==
    /\ requests[r].pc = "complete"
    /\ \E ok \in BOOLEAN :
          /\ drawings' =
                IF ok
                THEN [drawings EXCEPT ![requests[r].drawingId].status = "completed"]
                ELSE drawings
          /\ requests' = [requests EXCEPT ![r] =
                IF ok THEN [requests[r] EXCEPT !.pc = "finally"]
                ELSE Throw(requests[r], DatabaseError)]
    /\ UNCHANGED <<coreVars, extractedData, blobs, files>>

\* the inner catch: the status is set to error and the error thrown again,
\* or the update throws an error of its own
Catch(r) ==
    /\ requests[r].pc = "catch"
    /\ \E ok \in BOOLEAN :
          /\ drawings' =
                IF ok
                THEN [drawings EXCEPT ![requests[r].drawingId].status = "error"]
                ELSE drawings
          /\ requests' = [requests EXCEPT ![r] =
                [requests[r] EXCEPT
                    !.thrown = IF ok THEN requests[r].thrown ELSE Some(DatabaseError),
                    !.pc = "finally"]]
    /\ UNCHANGED <<coreVars, extractedData, blobs, files>>

\* the finally block: the temporary file is unlinked, and the handler
\* returns its response, or the response of the outer catch
Finally(r) ==
    /\ requests[r].pc = "finally"
    /\ files' =
          IF requests[r].localPath # None
          THEN [files EXCEPT ![Get(requests[r].localPath)] = Absent]
          ELSE files
    /\ requests' = [requests EXCEPT ![r] =
          Respond(requests[r],
                  IF requests[r].thrown = None THEN SuccessResponse(requests[r].materials)
                  ELSE FailureResponse(Get(requests[r].thrown)))]
    /\ UNCHANGED <<coreVars, drawings, extractedData, blobs>>

\* the upload-complete route: the client's upload has resolved and the
\* drawing gets its blob URL
UploadComplete ==
    /\ drawings["d1"].filePath = PendingUpload
    /\ drawings' = [drawings EXCEPT !["d1"].filePath = BlobUrl]
    /\ UNCHANGED <<coreVars, extractedData, blobs, files, requests>>

POST(r) ==
    \/ Json(r)
    \/ FindUnique(r)
    \/ Poll(r)
    \/ Deadline(r)
    \/ UpdateProcessing(r)
    \/ Fetch(r)
    \/ WriteFileOpen(r)
    \/ WriteFileClose(r)
    \/ Access(r)
    \/ Process(r)
    \/ Create(r)
    \/ UpdateCompleted(r)
    \/ Catch(r)
    \/ Finally(r)

NextExtract == UploadComplete \/ \E r \in Requests : POST(r)

SpecExtract == InitExtract /\ [][NextExtract]_vars

(***************************************************************************)
(* Claims about the deduplicator.                                          *)
(***************************************************************************)
\* C1: deduplicateMaterials is idempotent: deduplicating its own result
\* gives that result again, record by record and field by field, rawData
\* with sourceTrace and sourceTraceCount included.
C1_DedupIdempotent ==
    pc = "rededuped" => rededuped = deduped

\* the records of ms whose key is normalizeKey(m)
SameKeyIndices(ms, m) ==
    { j \in 1..Len(ms) : normalizeKey(ms[j]) = normalizeKey(m) }

KeysAllDistinct(ms) ==
    \A i, j \in 1..Len(ms) : i # j => normalizeKey(ms[i]) # normalizeKey(ms[j])

RECURSIVE FirstAppearances(_, _, _)
FirstAppearances(ms, idx, seen) ==
    IF idx = {} THEN <<>>
    ELSE LET j == CHOOSE x \in idx : \A y \in idx : x <= y
             a == ms[j].annotations
             rest == idx \ {j}
         IN  IF a = None \/ a = Some("") \/ a \in seen
             THEN FirstAppearances(ms, rest, seen)
             ELSE <<Get(a)>> \o FirstAppearances(ms, rest, seen \cup {a})

\* the member of the group at idx with the highest confidence, the first
\* of them in input order
Representative(ms, idx) ==
    ms[CHOOSE j \in idx :
          \A k \in idx :
              \/ CONFIDENCE_ORDER(ms[j].confidence) > CONFIDENCE_ORDER(ms[k].confidence)
              \/ CONFIDENCE_ORDER(ms[j].confidence) = CONFIDENCE_ORDER(ms[k].confidence) /\ j <= k]

\* C10: a merged record's annotations is the distinct non-empty
\* annotations of its group, in order of first appearance, joined with
\* "; "; when no member has a non-empty annotation the representative's
\* own annotation is kept.
C10_MergedAnnotations ==
    pc = "deduped" =>
        \A i \in 1..Len(deduped) :
            LET idx == SameKeyIndices(materials, deduped[i])
                anns == FirstAppearances(materials, idx, {})
            IN  IF anns # <<>>
                THEN deduped[i].annotations = Some(join(anns, "; "))
                ELSE deduped[i].annotations = Representative(materials, idx).annotations

\* "Window A", "Window B" and "Window A" again merge to "Window A; Window B"
C10_Witness ==
    /\ pc = "deduped"
    /\ Len(materials) = 3
    /\ \A j \in 1..3 : normalizeKey(materials[j]) = "glass|1200x600|5"
    /\ materials[1].annotations = Some("Window A")
    /\ materials[2].annotations = Some("Window B")
    /\ materials[3].annotations = Some("Window A")
    /\ Len(deduped) = 1
    /\ deduped[1].annotations = Some("Window A; Window B")

\* the members of the group at idx that carry a sourceTrace
Traced(ms, idx) == { j \in idx : sourceTraceOf(ms[j]) # None }

\* the least index of a non-empty set of indices
First(idx) == CHOOSE j \in idx : \A k \in idx : j <= k

C12_Representative ==
    pc = "deduped" =>
        \A i \in 1..Len(deduped) :
            /\ deduped[i].materialType =
                  Representative(materials, SameKeyIndices(materials, deduped[i])).materialType
            /\ deduped[i].dimensions =
                  Representative(materials, SameKeyIndices(materials, deduped[i])).dimensions
            /\ deduped[i].quantity =
                  Representative(materials, SameKeyIndices(materials, deduped[i])).quantity
            /\ deduped[i].confidence =
                  Representative(materials, SameKeyIndices(materials, deduped[i])).confidence

\* estimated "glass", then two confirmed records spelled "Glass " and "glass"
C12_Witness ==
    /\ pc = "deduped"
    /\ Len(materials) = 3
    /\ materials[1].materialType = Some("glass")
    /\ materials[1].confidence = Some("estimated")
    /\ materials[2].materialType = Some("Glass ")
    /\ materials[2].confidence = Some("confirmed")
    /\ materials[3].materialType = Some("glass")
    /\ materials[3].confidence = Some("confirmed")
    /\ Len(deduped) = 1
    /\ deduped[1].materialType = Some("Glass ")
    /\ deduped[1].confidence = Some("confirmed")

\* C13: the records of the result stand in the order in which their keys
\* first occur in the input.
C13_FirstOccurrenceOrder ==
    pc = "deduped" =>
        \A i, j \in 1..Len(deduped) :
            i < j => First(SameKeyIndices(materials, deduped[i]))
                         < First(SameKeyIndices(materials, deduped[j]))

\* a key, another key, and the first key again
C13_Witness ==
    /\ pc = "deduped"
    /\ Len(materials) = 3
    /\ normalizeKey(materials[1]) = "glass|1200x600|5"
    /\ normalizeKey(materials[2]) = "||"
    /\ normalizeKey(materials[3]) = "glass|1200x600|5"
    /\ Len(deduped) = 2
    /\ normalizeKey(deduped[1]) = "glass|1200x600|5"
    /\ normalizeKey(deduped[2]) = "||"

\* C14: deduplicateMaterials does not mutate its input: after the call
\* every input record, and every input record's rawData, has the fields
\* and values it had before, and the records of the result are new
\* objects; what the call returns is the deduplicated list.
C14_InputNotMutated ==
    /\ pc \in {"deduped", "rededuped"} =>
          /\ \A j \in 1..Len(materials) :
                /\ valueAt(heap.objs, j) = materials[j]
                /\ heap.objs[Len(materials) + j] = orEmpty(materials[j].rawData)
          /\ \A i \in 1..Len(heap.list) : heap.list[i] \notin 1..Len(materials)
    /\ pc = "deduped" => values(heap.objs, heap.list) = deduped
    /\ pc = "rededuped" => values(heap.objs, heap.list) = rededuped

\* two same-key records merged into a record that differs from both, in
\* its annotations and in its rawData
C14_Witness ==
    /\ pc = "deduped"
    /\ Len(materials) = 2
    /\ materials[1].annotations = Some("Window A")
    /\ materials[2].annotations = Some("Window B")
    /\ Len(deduped) = 1
    /\ deduped[1].annotations = Some("Window A; Window B")
    /\ deduped[1].rawData # materials[1].rawData
    /\ valueAt(heap.objs, 1) = materials[1]
    /\ heap.list = <<5>>

\* the three components of a record's key
KeyComponents(m) ==
    << trim(toLowerCase(IF IsSome(m.materialType) THEN Get(m.materialType) ELSE "")),
       trim(IF IsSome(m.dimensions) THEN Get(m.dimensions) ELSE ""),
       IF IsSome(m.quantity) THEN NumberToString(Get(m.quantity)) ELSE "" >>

\* C27: two input records that differ in one of the three key components
\* (materialType in lower case and trimmed, dimensions trimmed, quantity as
\* a string) are never merged: the result has one record for each
\* triple of components found in the input.
C27_MergedOnlyOnEqualComponents ==
    pc = "deduped" =>
        Len(deduped) =
            Cardinality({ KeyComponents(materials[i]) : i \in 1..Len(materials) })

(***************************************************************************)
(* Claims about the parser.                                                *)
(***************************************************************************)
IsBlank(text) == \A i \in 1..Len(text) : IsSpace(Ch(text, i))

\* a span yields a material type, a dimension or a quantity
Yields(span) ==
    \/ extractMaterialType(span) # None
    \/ extractDimensions(span) # <<>>
    \/ extractQuantities(span) # <<>>

\* the place, among the records, of the record of the k-th span
Emitted(spans, k) == Cardinality({ j \in 1..k : Yields(spans[j]) })

Parsed == pc = "return" /\ fn = "parseMaterialData"

RowParsed == pc = "return" /\ fn = "parseTableRow"

C3_Shape(text, spans, records) ==
    /\ (records = <<>>) <=> IsBlank(text)
    /\ (~IsBlank(text) /\ \A k \in 1..Len(spans) : ~Yields(spans[k])) =>
          /\ Len(records) = 1
          /\ records[1].annotations = Some(trim(text))
          /\ records[1].materialType = None
          /\ records[1].dimensions = None
          /\ records[1].quantity = None

\* C3: parseMaterialData returns the empty list if and only if the text
\* is empty or white space only, whatever the metadata; for a non-blank
\* text none of whose spans yields a material type, a dimension or a
\* quantity it returns exactly one record, whose annotations is the
\* trimmed text and whose materialType, dimensions and quantity are absent.
C3_EmptyOnlyForBlank ==
    Parsed => C3_Shape(argText, textSections(argText), result)

C3_Witness ==
    /\ Parsed
    /\ argText = "random unparseable gibberish 8492"
    /\ argData = Some([source |-> "pdf"])
    /\ Len(result) = 1
    /\ result[1].annotations = Some("random unparseable gibberish 8492")
    /\ result[1].materialType = None

\* C4: calculateArea takes a dimension string without a unit as
\* millimetres and accepts a unit on each operand: "1200x600" and
\* "1200mm x 600mm" both give 0.72 square metres.
C4_AreaUnits ==
    pc = "return" /\ fn = "calculateArea" /\ argText \in {"1200x600", "1200mm x 600mm"}
        => result = Some(Rat(18, 25))

C5_Record(record, quantities) ==
    quantities # <<>> /\ sum(quantities) # RatZero =>
        /\ record.quantity = Some(sum(quantities))
        /\ record.confidence = Some("confirmed")

\* C5: every span in which a quantity pattern matches, the captured
\* numbers having a sum other than 0, gives a record whose quantity is
\* that sum and whose confidence is confirmed, whatever dimensions the
\* span also holds.
C5_QuantityPrecedence ==
    Parsed =>
        \A k \in 1..Len(textSections(argText)) :
            /\ Yields(textSections(argText)[k]) =>
                   Emitted(textSections(argText), k) \in 1..Len(result)
            /\ extractQuantities(textSections(argText)[k]) # <<>> =>
                   C5_Record(result[Emitted(textSections(argText), k)],
                             extractQuantities(textSections(argText)[k]))

C5_Witness ==
    /\ Parsed
    /\ argText = "Qty: 5, 1200x600mm"
    /\ Len(result) = 1
    /\ result[1].dimensions = Some("1200x600mm")
    /\ result[1].quantity = Some(Int2Rat(5))
    /\ result[1].confidence = Some("confirmed")

C6_Record(record, dimension, area) ==
    /\ area # None =>
          record.quantity = area /\ record.confidence = Some("estimated")
    /\ test(DIMENSION_PATTERNS[2], dimension) =>
          record.quantity # None /\ record.confidence = Some("estimated")

C6_Span(record, dimensions, quantities) ==
    quantities = <<>> /\ dimensions # <<>> =>
        C6_Record(record, dimensions[1], calculateArea(dimensions[1]))

\* C6: every span in which no quantity pattern matches and a dimension is
\* extracted gives, when the area of the first dimension is computable, a
\* record whose quantity is that area and whose confidence is estimated;
\* a dimension with a unit on each operand, as "1200mm x 600mm", is one
\* whose area is computable.
C6_DimensionOnly ==
    Parsed =>
        \A k \in 1..Len(textSections(argText)) :
            Yields(textSections(argText)[k]) =>
                C6_Span(result[Emitted(textSections(argText), k)],
                        extractDimensions(textSections(argText)[k]),
                        extractQuantities(textSections(argText)[k]))

CategoryOrder ==
    << "acp", "aluminum", "steel", "composite", "glass", "concrete", "stone", "brick",
       "other" >>

KeywordsOf(category) ==
    MATERIAL_KEYWORDS[CHOOSE e \in 1..Len(MATERIAL_KEYWORDS) :
                          MATERIAL_KEYWORDS[e][1] = category][2]

\* a keyword of the category occurs in the text, letter case apart
HasKeywordIn(category, text) ==
    \E k \in 1..Len(KeywordsOf(category)) :
        includes(toLowerCase(text), KeywordsOf(category)[k])

\* C7: extractMaterialType returns the first category, in the order acp,
\* aluminum, steel, composite, glass, concrete, stone, brick, other, one of
\* whose keywords occurs in the text as a case-insensitive substring, and
\* absent when no category has one.
C7_FirstCategory ==
    pc = "return" /\ fn = "extractMaterialType" =>
        IF \E c \in 1..Len(CategoryOrder) : HasKeywordIn(CategoryOrder[c], argText)
        THEN \E c \in 1..Len(CategoryOrder) :
                /\ result = Some(CategoryOrder[c])
                /\ HasKeywordIn(CategoryOrder[c], argText)
                /\ \A b \in 1..(c - 1) : ~HasKeywordIn(CategoryOrder[b], argText)
        ELSE result = None

C7_Witness ==
    /\ pc = "return"
    /\ fn = "extractMaterialType"
    /\ argText = "aluminum composite panel door"
    /\ HasKeywordIn("aluminum", argText)
    /\ HasKeywordIn("other", argText)
    /\ result = Some("acp")

\* the cells a table row's quantity may be read from: those under the qty
\* role, or, in a row without roles, those that are a number of 1 to 3 digits
QuantityCells(row) ==
    IF row.columnRoles \in {None, Some(<<>>)}
    THEN { trim(row.cells[c]) : c \in { d \in 1..Len(row.cells) :
                                          test(BareQuantity, trim(row.cells[d])) } }
    ELSE { trim(row.cells[c]) : c \in { d \in 1..Len(row.cells) :
                                          /\ d <= Len(Get(row.columnRoles))
                                          /\ Get(row.columnRoles)[d] = "qty" } }

C8_Text(record, quantities) ==
    /\ record.confidence = Some("missing") => record.quantity = None
    /\ record.confidence = Some("confirmed") =>
          quantities # <<>> /\ record.quantity = Some(sum(quantities))

C8_Row(record, row) ==
    /\ record.confidence = Some("missing") => record.quantity = None
    /\ record.confidence = Some("confirmed") =>
          \E cell \in QuantityCells(row) :
              /\ parseInt(cell) # None
              /\ record.quantity = Some(Int2Rat(Get(parseInt(cell))))

\* C8: in every record of parseMaterialData and of parseTableRow,
\* confidence missing goes with an absent quantity, and confidence
\* confirmed with a quantity read from the quantity matches of the
\* record's span, or from the row's quantity cell, never with an area
\* computed from dimensions.
C8_ConfidenceAndQuantity ==
    /\ Parsed =>
          \A i \in 1..Len(result) :
              C8_Text(result[i], extractQuantities(Get(result[i].annotations)))
    /\ RowParsed /\ result # None => C8_Row(Get(result), argRow)

C8_Witness ==
    /\ Parsed
    /\ argText = "Window\n\n12 pcs 1200x600\r\nsteel\nx"
    /\ Len(result) = 3
    /\ result[1].confidence = Some("missing")
    /\ result[1].quantity = None
    /\ result[2].confidence = Some("confirmed")
    /\ result[2].dimensions = Some("1200x600")
    /\ result[2].quantity = Some(Int2Rat(12))

\* descCell, qtyCell and sizeCell of a row
RoleCells(row) ==
    assignCells(row.cells,
                IF IsSome(row.columnRoles) THEN Get(row.columnRoles) ELSE <<>>,
                1, NoCells)

\* the columns of a row without roles whose cell suggests a role
DescColumns(row) ==
    { c \in 1..Len(row.cells) : extractMaterialType(trim(row.cells[c])) # None }

QtyColumns(row) ==
    { c \in 1..Len(row.cells) : test(BareQuantity, trim(row.cells[c])) } \ DescColumns(row)

SizeColumns(row) ==
    { c \in 1..Len(row.cells) : test(SizeLike, trim(row.cells[c])) }
        \ (DescColumns(row) \cup QtyColumns(row))

\* C15: in a row without column roles, of several cells that qualify for
\* one role (description: a material keyword; quantity: a number of 1 to 3
\* digits; size: number x number) the first in column order is the one
\* used, and the later ones are ignored.
C15_FirstCellWins ==
    RowParsed /\ argRow.columnRoles = None =>
        /\ DescColumns(argRow) # {} =>
              RoleCells(argRow).descCell = trim(argRow.cells[First(DescColumns(argRow))])
        /\ QtyColumns(argRow) # {} =>
              RoleCells(argRow).qtyCell = trim(argRow.cells[First(QtyColumns(argRow))])
        /\ SizeColumns(argRow) # {} =>
              RoleCells(argRow).sizeCell = trim(argRow.cells[First(SizeColumns(argRow))])
        /\ QtyColumns(argRow) # {} /\ result # None =>
              Get(result).quantity =
                  Some(Int2Rat(Get(parseInt(trim(argRow.cells[First(QtyColumns(argRow))])))))

\* the area of a size cell is computable: calculateArea gives it, or the
\* cell is a dimension with a unit on each operand
AreaComputable(sizeCell) ==
    calculateArea(sizeCell) # None \/ test(DIMENSION_PATTERNS[2], sizeCell)

C16_Resolution(record, qtyNum, sizeCell) ==
    IF qtyNum # None /\ Get(qtyNum) >= 0
    THEN record.quantity = Some(Int2Rat(Get(qtyNum)))
         /\ record.confidence = Some("confirmed")
    ELSE IF AreaComputable(sizeCell)
    THEN /\ record.quantity # None
         /\ calculateArea(sizeCell) # None => record.quantity = calculateArea(sizeCell)
         /\ record.confidence = Some("estimated")
    ELSE record.quantity = None /\ record.confidence = Some("missing")

\* C16: in a record of parseTableRow, the quantity is the quantity cell's
\* integer, with confidence confirmed, when that cell parses as an integer
\* not below 0, a size cell or not; otherwise the area of the size cell,
\* with confidence estimated, when that area is computable; otherwise it
\* is absent, with confidence missing.
C16_QuantityResolution ==
    RowParsed /\ result # None =>
        C16_Resolution(Get(result), parseInt(RoleCells(argRow).qtyCell),
                       RoleCells(argRow).sizeCell)

\* C17: parseTableRow returns no record only when the description cell,
\* the quantity cell and the size cell of the row are all empty or absent.
C17_NullOnlyForEmptyRow ==
    RowParsed /\ result = None => RoleCells(argRow) = NoCells

\* C18: parseTableRow called with a non-empty columnRoles whose length is
\* not that of cells fails with an error, and returns neither a record
\* nor null.
C18_RoleLengthChecked ==
    /\ fn = "parseTableRow"
    /\ pc # "call"
    /\ argRow.columnRoles \notin {None, Some(<<>>)}
    /\ Len(Get(argRow.columnRoles)) # Len(argRow.cells)
    => pc = "throw"

\* the record has a sourceTrace, and a source or a method is named in the
\* trace or next to it in rawData
HasTrace(record) ==
    /\ sourceTraceOf(record) # None
    /\ \/ Has(Get(sourceTraceOf(record)), "source")
       \/ Has(Get(sourceTraceOf(record)), "method")
       \/ Has(Get(record.rawData), "source")
       \/ Has(Get(record.rawData), "method")

\* C9: every record of parseMaterialData called with metadata that names
\* a source, the general entry for unparsable text included, and every
\* record of parseTableRow, has rawData.sourceTrace with a source or method.
C9_SourceTrace ==
    /\ Parsed /\ Has(orEmpty(argData), "source") =>
          \A i \in 1..Len(result) : HasTrace(result[i])
    /\ RowParsed /\ result # None => HasTrace(Get(result))

(***************************************************************************)
(* Claims about the validation functions.                                  *)
(***************************************************************************)
RuleIds ==
    { "has-material-type", "has-dimensions", "has-quantity", "has-source-trace",
      "has-annotations" }

\* the text is present and not blank
Present(s) == s # None /\ ~IsBlank(Get(s))

\* the record fails the rule
Fails(m, ruleId) ==
    CASE ruleId = "has-material-type" -> ~Present(m.materialType)
      [] ruleId = "has-dimensions" -> ~Present(m.dimensions)
      [] ruleId = "has-quantity" -> m.quantity = None \/ Get(m.quantity).n <= 0
      [] ruleId = "has-source-trace" ->
            m.rawData = None \/ ~Has(Get(m.rawData), "sourceTrace")
      [] ruleId = "has-annotations" -> ~Present(m.annotations)

\* C19: validateMaterials gives exactly one violation for each pair of a
\* record index and a rule that the record fails, over the five rules,
\* and none for any other pair; the violations of the material type and
\* quantity rules have severity warning, those of the other three info,
\* and none has severity error.
C19_OneViolationPerFailure ==
    pc = "return" /\ fn = "validateMaterials" =>
        /\ \A i \in 0..(Len(materials) - 1) : \A r \in RuleIds :
              Cardinality({ k \in 1..Len(result) :
                              result[k].materialIndex = i /\ result[k].ruleId = r })
                  = IF Fails(materials[i + 1], r) THEN 1 ELSE 0
        /\ \A k \in 1..Len(result) :
              /\ result[k].materialIndex \in 0..(Len(materials) - 1)
              /\ result[k].ruleId \in RuleIds
              /\ result[k].severity =
                    IF result[k].ruleId \in {"has-material-type", "has-quantity"}
                    THEN "warning" ELSE "info"

\* a record that fails all five rules, after one that fails none
C19_Witness ==
    /\ pc = "return"
    /\ fn = "validateMaterials"
    /\ Len(materials) = 2
    /\ \A r \in RuleIds : ~Fails(materials[1], r) /\ Fails(materials[2], r)
    /\ Len(result) = 5
    /\ \A k \in 1..5 : result[k].materialIndex = 1

Metrics == pc = "return" /\ fn = "computeDataQualityMetrics"

Percent(n, total) == Rat(100 * n, total)

\* C20: computeDataQualityMetrics of the empty list returns total 0,
\* every count 0 and every fill rate 0; of a list that is not empty, each
\* fill rate is 100 times the matching count divided by total.
C20_FillRates ==
    /\ Metrics /\ materials = <<>> =>
          /\ \A f \in {"total", "withMaterialType", "withDimensions", "withQuantity",
                       "withSourceTrace", "confirmed", "estimated", "missing"} :
                result[f] = 0
          /\ \A f \in {"fillRateMaterialType", "fillRateDimensions", "fillRateQuantity",
                       "fillRateComplete"} :
                result[f] = RatZero
    /\ Metrics /\ materials # <<>> =>
          /\ result.total = Len(materials)
          /\ result.fillRateMaterialType = Percent(result.withMaterialType, result.total)
          /\ result.fillRateDimensions = Percent(result.withDimensions, result.total)
          /\ result.fillRateQuantity = Percent(result.withQuantity, result.total)
          /\ result.fillRateComplete =
                Percent(Cardinality({ i \in 1..Len(materials) :
                              /\ Present(materials[i].materialType)
                              /\ Present(materials[i].dimensions)
                              /\ ~Fails(materials[i], "has-quantity") }),
                          result.total)
          /\ result.withMaterialType =
                Cardinality({ i \in 1..Len(materials) : Present(materials[i].materialType) })
          /\ result.withDimensions =
                Cardinality({ i \in 1..Len(materials) : Present(materials[i].dimensions) })
          /\ result.withQuantity =
                Cardinality({ i \in 1..Len(materials) :
                                ~Fails(materials[i], "has-quantity") })

C20_Witness ==
    /\ Metrics
    /\ materials = <<>>
    /\ result.total = 0
    /\ result.fillRateComplete = RatZero

\* the number of violations of a rule
ViolationsOf(violations, ruleId) ==
    Cardinality({ k \in 1..Len(violations) : violations[k].ruleId = ruleId })

\* the number of complete records
Complete(ms) == Cardinality({ i \in 1..Len(ms) : isComplete(ms[i]) })

C28_Agree(metrics, violations, complete) ==
    /\ metrics.withMaterialType =
          metrics.total - ViolationsOf(violations, "has-material-type")
    /\ metrics.withDimensions = metrics.total - ViolationsOf(violations, "has-dimensions")
    /\ metrics.withQuantity = metrics.total - ViolationsOf(violations, "has-quantity")
    /\ metrics.withSourceTrace =
          metrics.total - ViolationsOf(violations, "has-source-trace")
    /\ metrics.confirmed + metrics.estimated + metrics.missing = metrics.total
    /\ complete <= metrics.withMaterialType
    /\ complete <= metrics.withDimensions
    /\ complete <= metrics.withQuantity
    /\ metrics.total > 0 => metrics.fillRateComplete = Percent(complete, metrics.total)

\* C28: the counts of computeDataQualityMetrics agree with
\* validateMaterials on the same list: withMaterialType, withDimensions,
\* withQuantity and withSourceTrace are each total minus the number of
\* violations of the matching rule; confirmed + estimated + missing is
\* total; and the number of complete records, the one fillRateComplete
\* is computed from, is at most each of withMaterialType, withDimensions
\* and withQuantity.
C28_MetricsAgreeWithRules ==
    Metrics => C28_Agree(result, validateMaterials(materials), Complete(materials))

\* two records, one with every field and one with a blank type and
\* quantity 0
C28_Witness ==
    /\ Metrics
    /\ result.total = 2
    /\ result.withMaterialType = 1
    /\ result.withQuantity = 1
    /\ result.confirmed = 1
    /\ result.estimated = 1
    /\ ViolationsOf(validateMaterials(materials), "has-quantity") = 1
    /\ Complete(materials) = 1

(***************************************************************************)
(* Further claims about the parser.                                        *)
(***************************************************************************)
\* the lines of a text: its parts between line feeds
RECURSIVE LinesOf(_, _)
LinesOf(text, i) ==
    IF i > Len(text) THEN << text >>
    ELSE IF Ch(text, i) = "\n"
         THEN << SubSeq(text, 1, i - 1) >> \o LinesOf(SubSeq(text, i + 1, Len(text)), 1)
         ELSE LinesOf(text, i + 1)

\* the lines, each trimmed, that have at least 2 characters
RECURSIVE LongLines(_)
LongLines(lines) ==
    IF lines = <<>> THEN <<>>
    ELSE (IF Len(trim(Head(lines))) >= 2 THEN << trim(Head(lines)) >> ELSE <<>>)
         \o LongLines(Tail(lines))

\* the candidate spans of a text: its trimmed lines of 2 characters or
\* more (a blank line between two paragraphs is one of the lines left
\* out), or the whole trimmed text when there is no such line
SpansOrText(text, lines) ==
    IF lines = <<>> /\ trim(text) # "" THEN << trim(text) >> ELSE lines

Spans(text) == SpansOrText(text, LongLines(LinesOf(text, 1)))

\* the records are the records of some of the spans, in the order of the
\* spans, each with its span as annotations
InSpanOrder(records, spans) ==
    \E f \in [1..Len(records) -> 1..Len(spans)] :
        /\ \A i, j \in 1..Len(records) : i < j => f[i] < f[j]
        /\ \A j \in 1..Len(records) : records[j].annotations = Some(spans[f[j]])

C22_Records(records, spans) ==
    /\ Len(records) <= Len(spans)
    /\ (\E k \in 1..Len(spans) : Yields(spans[k])) => InSpanOrder(records, spans)

\* C22: the candidate spans of parseMaterialData are the trimmed lines of
\* the text that have at least 2 characters, paragraph by paragraph, or the
\* whole trimmed text when no line is left and the text is not blank; the
\* call gives at most one record per span, in the order of the spans, and
\* every record made from a span has that span as its annotations.
C22_SpansAndRecords ==
    Parsed =>
        /\ textSections(argText) = Spans(argText)
        /\ C22_Records(result, textSections(argText))

\* a text of two paragraphs and four lines, one of them too short, gives
\* three records
C22_Witness ==
    /\ Parsed
    /\ argText = "Window\n\n12 pcs 1200x600\r\nsteel\nx"
    /\ Len(textSections(argText)) = 3
    /\ Len(result) = 3
    /\ result[2].annotations = Some("12 pcs 1200x600")

C23_Record(record, dimensions, quantities) ==
    quantities # <<>> /\ sum(quantities) = RatZero =>
        IF dimensions # <<>> /\ truthy(calculateArea(dimensions[1]))
        THEN /\ record.quantity = calculateArea(dimensions[1])
             /\ record.confidence = Some("estimated")
        ELSE /\ record.quantity = Some(RatZero)
             /\ record.confidence = Some("confirmed")

SingleCountTexts ==
    { "5 nos " \o d \o w : d \in {"", "1200x600mm"}, w \in {"", " glass panel"} }

\* C24: a span with exactly one count phrase, a number N followed by a
\* count abbreviation, and no other quantity cue gives a record of
\* quantity N: the one mention is counted once.
C24_CountedOnce ==
    Parsed /\ argText \in SingleCountTexts =>
        /\ Len(result) = 1
        /\ result[1].quantity = Some(Int2Rat(5))

\* a triplet with its unit written once, and the pair of its first two
\* operands with that unit
TripletAndPair ==
    { << "120 x 60 x 4 " \o unit, "120 x 60 " \o unit >> :
        unit \in {"mm", "cm", "m", "ft", "in"} }

\* C25: the area of a triplet "A x B x C unit" is the area of "A x B unit",
\* for each of the units mm, cm, m, ft and in.
C25_TripletUnit ==
    \A t \in TripletAndPair :
        pc = "return" /\ fn = "calculateArea" /\ argText = t[1] =>
            result = calculateArea(t[2])

\* C26: each catch-all term of the last category, alone as the text, is
\* classified other.
C26_CatchAllTerms ==
    pc = "return" /\ fn = "extractMaterialType"
      /\ argText \in {"facade", "curtain wall", "cladding", "panel"} =>
        result = Some("other")

(***************************************************************************)
(* Claims about repeated calls of the parser.                              *)
(***************************************************************************)
\* what a call of fn on text returns in a module whose patterns are as the
\* module made them
FreshResult(name, text, additionalData) ==
    CASE name = "extractDimensions" -> extractDimensions(text)
      [] name = "extractQuantities" -> extractQuantities(text)
      [] name = "parseMaterialData" -> parseMaterialData(text, additionalData)

\* C21: the result of a call of the parser depends only on its arguments:
\* whatever calls came before it, on whatever inputs, a call returns what
\* it returns in a module just loaded, and no pattern of the library
\* carries a lastIndex from one call to the next.
C21_ResultsDependOnArguments ==
    /\ lastIndexes = ZeroIndexes
    /\ pc = "return" => result = FreshResult(fn, argText, argData)

\* a third call that found something, after two calls on any inputs
C21_Witness ==
    /\ pc = "return"
    /\ calls = 3
    /\ fn \in {"extractDimensions", "extractQuantities"}
    /\ Len(result) = 2

(***************************************************************************)
(* Claims about the request handler.                                       *)
(***************************************************************************)
\* the step in which the handler of r returns
Returns(r) == requests[r].pc # "returned" /\ requests'[r].pc = "returned"

\* where a handler stands before its update of the status to processing
BeforeUpdate == {"json", "findUnique", "poll", "update"}

\* where a handler stands between its update of the status to processing
\* and its update to completed or error
Processing == {"fetch", "writeFile", "writing", "access", "process", "create",
               "complete", "catch"}

\* the response is one of the early rejections
Rejected(response) == response.status \in {400, 404, 503}

\* the response of a handler that has set the status to processing and
\* whose update to completed or error has not thrown
Finished(response) ==
    \/ response.status = 200
    \/ response.status = 500 /\ response.details # Some(DatabaseError)

\* the status the response stands for
StatusFor(response) == IF response.status = 200 THEN "completed" ELSE "error"

\* a step of a handler that has not yet reached its first update leaves
\* the table of drawings as it is, and a rejection is such a step
RejectionsLeaveStatus(r) ==
    /\ requests[r].pc \in {"json", "findUnique", "poll"} /\ requests'[r] # requests[r] =>
          drawings' = drawings
    /\ Returns(r) /\ Rejected(Get(requests'[r].response)) =>
          requests[r].pc \in {"json", "findUnique", "poll"} /\ drawings' = drawings

C29_AsStated(r) ==
    /\ Returns(r) /\ Finished(Get(requests'[r].response)) =>
          drawings'[requests[r].drawingId].status = StatusFor(Get(requests'[r].response))
    /\ RejectionsLeaveStatus(r)

\* C29: when the handler of a request that has set the status of its
\* drawing to processing returns, the database updates having succeeded,
\* the status is completed if the response is the success response and
\* error if it is the 500 response, and never processing; a request
\* rejected with 400, 404 or 503 leaves the status as it was.
C29_StatusAtReturn == [][\A r \in Requests : C29_AsStated(r)]_vars

\* the other request has written nothing to the drawing
Untouched(request) ==
    \/ request.pc \in BeforeUpdate
    \/ request.pc = "returned" /\ Rejected(Get(request.response))

\* the other request has set the status to processing and has not made,
\* or has failed to make, its update to completed or error
Unsettled(request) ==
    request.pc \in Processing \/ request.thrown = Some(DatabaseError)

C29_Amended(r) ==
    /\ Returns(r) /\ Finished(Get(requests'[r].response)) =>
          IF \A o \in Requests \ {r} : Untouched(requests'[o])
          THEN drawings'[requests[r].drawingId].status
                  = StatusFor(Get(requests'[r].response))
          ELSE \/ drawings'[requests[r].drawingId].status \in {"completed", "error"}
               \/ \E o \in Requests \ {r} : Unsettled(requests'[o])
    /\ RejectionsLeaveStatus(r)

\* C29, amended: the status at the return is the one the response stands
\* for when no other request has written to the drawing; with another
\* request at work on the same drawing it is completed or error, though
\* not always the one of this response, or it is processing and the other
\* request has still to make its update to completed or error.
C29_StatusAtReturnUnlessOverlapped == [][\A r \in Requests : C29_Amended(r)]_vars

\* r1 has returned the success response while r2, on the same drawing,
\* has set the status back to processing
C29_Witness ==
    /\ requests["r1"].pc = "returned"
    /\ Get(requests["r1"].response).status = 200
    /\ requests["r2"].pc = "fetch"
    /\ drawings["d1"].status = "processing"

\* what a request that works on a readable blob may have thrown and found:
\* it finds the file it wrote, and of a PDF it finds the materials
Undisturbed(request, fileType) ==
    /\ request.thrown # Some("File not found at path")
    /\ fileType = "pdf" =>
          /\ request.thrown \in {None, Some(DatabaseError)}
          /\ request.materials \in {<<>>, << "material" >>}

\* C30: of two requests for the same blob-stored drawing neither fails,
\* nor gets another result, because of what the other does to the
\* temporary file: a request that has downloaded a readable PDF or DWG
\* finds the file where it wrote it, and processes the content it wrote.
C30_NoInterference ==
    \A r \in Requests :
        /\ requests[r].drawing # None
        /\ isUrl(drawingOf(r).filePath)
        /\ blobs[drawingOf(r).filePath] = "text"
        /\ drawingOf(r).fileType \in {"pdf", "dwg"}
        => Undisturbed(requests[r], drawingOf(r).fileType)
====
